---- MODULE Spec2Model ----
(***************************************************************************)
(* Model of scripts/git/branch-cleanup.sh: one cleanup run over a          *)
(* repository, from parse_args to the exit status.  Branch names are       *)
(* sequences of one-character strings, so that the grep filters and the    *)
(* archive tag name are computed on the characters of the name.           *)
(***************************************************************************)
EXTENDS Integers, Sequences, FiniteSets, TLC

VARIABLES
    argv,               \* the command line, as the options it asks for
    cwd_has_git,        \* the directory the script is started in has a .git directory
    repo_is_git,        \* $REPO_PATH/.git is a directory
    commit_age,         \* branch -> age in days of its last commit
    ancestor_of_base,   \* branch -> its tip is an ancestor of develop or of main
    heads0,             \* local branches when the run starts
    tags0,              \* local tags when the run starts
    refs_heads,         \* local branches
    refs_tags,          \* local tags: set of [name, commit]
    remote_heads,       \* branches on origin
    remote_tags,        \* tags on origin
    DRY_RUN, AUTO_MODE, KEEP_MERGED_DAYS, STALE_DAYS,
    ARCHIVE_UNMERGED, BRANCH_PATTERN, CLEANUP_REMOTE,
    DELETED_COUNT, ARCHIVED_COUNT, SKIPPED_COUNT, FAILED_COUNT,
    pc,                 \* position of the script
    branches,           \* the array filled by mapfile in the running pass
    idx,                \* index of the loop over branches
    call,               \* arguments of the pending archive / confirm / delete call
    logfile,            \* lines appended to .git/cleanup-log.txt that name a branch
    tty,                \* confirmation prompts and their replies
    summary_printed,    \* print_summary has run
    exit_code           \* exit status, NoExit while running

\* scripts/git/branch-audit.sh, which shares argv, repo_is_git, the refs,
\* STALE_DAYS, pc, idx and exit_code with the above
VARIABLES
    OUTPUT_FORMAT, CHECK_REMOTE,
    EXIT_CODE,          \* the status main exits with
    all_branches,       \* the array filled by mapfile in collect_branch_data
    naming_violations, stale_merged, stale_unmerged, orphaned_agent,
                        \* the arrays of collect_branch_data: whether a value was
                        \* ever assigned, and the items
    report,             \* the summary lines printed, as [label, count]
    clock,              \* date +%s
    last_commit_date,   \* branch -> %ct of its last commit
    run_no,             \* 1 for the first audit of the repository, 2 for the next
    first_run           \* summary and exit status of the first audit

\* check_naming_convention applied to one name
VARIABLES
    name_arg,           \* the name it is called with
    name_status         \* its return status, NoExit before the call

\* prepare-agent-branch.sh, which shares argv, pc and exit_code with the above
VARIABLES
    TASK_DESCRIPTION, SESSION_ID, BASE_BRANCH, AGENT_TYPE, BRANCH_NAME,
    sanitized_task,     \* the local of main
    HEAD,               \* the branch that is checked out
    local_tips,         \* local branch -> the commit it points at
    origin_tips,        \* branch on origin -> the commit it points at
    worktree_dirty,     \* uncommitted changes that a checkout of another branch would overwrite
    stash_list,         \* number of stash entries
    branch_description, \* branches with a branch.<name>.description in the git config
    git_ops,            \* the git commands run so far that write to the repository
                        \* or query the remote for the branch name
    prov_run,           \* 1 for the first provisioning run, 2 for its repetition
    first_prov_run      \* exit status and local branches at the end of the first run

\* agent-logger.js, mcp-logger.js and the logging functions of supabase-client.js
VARIABLES
    agent_communications,   \* rows of the table agent_communications
    mcp_tool_calls,         \* rows of the table mcp_tool_calls
    loki_stream,            \* entries pushed to Loki
    log_clock,              \* Date.now()
    warnings,               \* number of console.warn / console.error lines
    last_call,              \* the logging function called last, with its arguments
    last_result             \* how that call settled: the value returned, or rejected

vars == <<argv, cwd_has_git, repo_is_git, commit_age, ancestor_of_base, heads0,
          tags0,
          refs_heads, refs_tags, remote_heads, remote_tags,
          DRY_RUN, AUTO_MODE, KEEP_MERGED_DAYS, STALE_DAYS,
          ARCHIVE_UNMERGED, BRANCH_PATTERN, CLEANUP_REMOTE,
          DELETED_COUNT, ARCHIVED_COUNT, SKIPPED_COUNT, FAILED_COUNT,
          pc, branches, idx, call, logfile, tty, summary_printed, exit_code,
          OUTPUT_FORMAT, CHECK_REMOTE, EXIT_CODE, all_branches,
          naming_violations, stale_merged, stale_unmerged, orphaned_agent,
          report, clock, last_commit_date, run_no, first_run,
          name_arg, name_status,
          TASK_DESCRIPTION, SESSION_ID, BASE_BRANCH, AGENT_TYPE, BRANCH_NAME,
          sanitized_task, HEAD, local_tips, origin_tips, worktree_dirty,
          stash_list, branch_description, git_ops, prov_run, first_prov_run,
          agent_communications, mcp_tool_calls, loki_stream, log_clock, warnings,
          last_call, last_result>>

repo_vars == <<refs_heads, refs_tags, remote_heads, remote_tags>>
opt_vars == <<DRY_RUN, AUTO_MODE, KEEP_MERGED_DAYS, STALE_DAYS,
              ARCHIVE_UNMERGED, BRANCH_PATTERN, CLEANUP_REMOTE>>
count_vars == <<DELETED_COUNT, ARCHIVED_COUNT, SKIPPED_COUNT, FAILED_COUNT>>
audit_vars == <<OUTPUT_FORMAT, CHECK_REMOTE, EXIT_CODE, all_branches,
                naming_violations, stale_merged, stale_unmerged, orphaned_agent,
                report, clock, last_commit_date, run_no, first_run>>
naming_vars == <<name_arg, name_status>>
prov_arg_vars == <<TASK_DESCRIPTION, SESSION_ID, BASE_BRANCH, AGENT_TYPE>>
prov_repo_vars == <<HEAD, local_tips, origin_tips, worktree_dirty, stash_list,
                    branch_description, git_ops>>
prov_vars == <<prov_arg_vars, BRANCH_NAME, sanitized_task, prov_repo_vars,
               prov_run, first_prov_run>>
log_vars == <<agent_communications, mcp_tool_calls, loki_stream, log_clock, warnings,
              last_call, last_result>>
\* what a cleanup run reads and never writes, and the state of the other scripts
env_vars == <<argv, cwd_has_git, repo_is_git, commit_age, ancestor_of_base, heads0,
              tags0,
              audit_vars, naming_vars, prov_vars, log_vars>>

-----------------------------------------------------------------------------
(* Bounds and inputs *)

MaxBranches == 3

NoExit == 0 - 1

n_main == <<"m","a","i","n">>
n_develop == <<"d","e","v","e","l","o","p">>
n_master == <<"m","a","s","t","e","r">>
n_feature_x == <<"f","e","a","t","u","r","e","/","x">>
n_claude_x == <<"c","l","a","u","d","e","/","x">>
n_agent_y == <<"a","g","e","n","t","/","y">>

\* the branch names of the modelled repositories, in the order git branch lists them
SortedNames == <<n_agent_y, n_claude_x, n_develop, n_feature_x, n_main, n_master>>

Names == {SortedNames[i] : i \in 1..Len(SortedNames)}

Ages == {5, 40, 70}

KeepMergedValues == {7, 90}

Replies == {"y", "Y", "n"}

\* grep -E patterns: the literal lit, anchored at the start of the line or
\* not, its last character starred or not
pat_default == [anchored |-> FALSE, lit |-> <<>>, star |-> FALSE]
pat_feature == [anchored |-> FALSE, lit |-> <<"f","e","a","t","u","r","e","/">>, star |-> TRUE]
pat_claude == [anchored |-> TRUE, lit |-> <<"c","l","a","u","d","e","/">>, star |-> FALSE]
pat_agent == [anchored |-> TRUE, lit |-> <<"a","g","e","n","t","/">>, star |-> FALSE]

Patterns == {pat_default, pat_feature}

-----------------------------------------------------------------------------
(* Configuration defaults *)

DEFAULT_STALE_DAYS == 30
LONG_STALE_DAYS == 90
DEFAULT_KEEP_MERGED_DAYS == 7
ORPHAN_DAYS == 60
MERGED_AGENT_DAYS == 30
PROTECTED_BRANCHES == <<n_main, n_develop, n_master>>

\* set -euo pipefail
set_e == TRUE


-----------------------------------------------------------------------------
(* Pure helpers *)

\* the literal a pattern requires: a starred last character may occur zero times
required_lit(p) ==
    IF p.star THEN SubSeq(p.lit, 1, Len(p.lit) - 1) ELSE p.lit

match_at(name, i, lit) ==
    /\ i + Len(lit) - 1 <= Len(name)
    /\ \A k \in 1..Len(lit) : name[i + k - 1] = lit[k]

\* grep -E "$pattern": the line is kept when the pattern matches somewhere in it
grep_E(p, name) ==
    \E i \in (IF p.anchored THEN {1} ELSE 1..(Len(name) + 1)) :
        match_at(name, i, required_lit(p))

\* grep -E '^(claude|agent)/'
grep_agent(name) == grep_E(pat_claude, name) \/ grep_E(pat_agent, name)

\* is_protected with master missing from the list
is_protected_without_master(branch) ==
    branch = n_main \/ branch = n_develop

is_protected(branch) ==
    \E i \in 1..Len(PROTECTED_BRANCHES) : branch = PROTECTED_BRANCHES[i]

get_branch_age(branch) == commit_age[branch]

\* git merge-base --is-ancestor fails for a ref that does not exist
is_merged(branch) ==
    /\ branch \in refs_heads
    /\ ancestor_of_base[branch]

\* archive/${branch//\//-}
tag_name(branch) ==
    <<"a","r","c","h","i","v","e","/">> \o
        [i \in 1..Len(branch) |-> IF branch[i] = "/" THEN "-" ELSE branch[i]]

\* the commit a branch points at
tip(branch) == branch

tag_exists(t) == \E r \in refs_tags : r.name = t

\* git branch | sed 's/^[* ]*//' | grep -E "$BRANCH_PATTERN" || true
mapfile_pattern(p) ==
    SelectSeq(SortedNames, LAMBDA n : n \in refs_heads /\ grep_E(p, n))

\* git branch | sed 's/^[* ]*//' | grep -E '^(claude|agent)/' || true
mapfile_agent ==
    SelectSeq(SortedNames, LAMBDA n : n \in refs_heads /\ grep_agent(n))

\* ((X++)) taken to succeed whatever the counter was
post_incr_status_always_zero(x) == 0

\* exit status of ((X++)): 1 when the expression's value, the old X, is 0
post_incr_status(x) == IF x = 0 THEN 1 ELSE 0

\* under set -e a failing simple command ends the script with its status
errexit(status) == set_e /\ status # 0

line(msg, branch) == [msg |-> msg, branch |-> branch, reason |-> ""]

\* a line of delete_branch, which also names the reason it was called with
delete_line(msg) == [msg |-> msg, branch |-> call.branch, reason |-> call.reason]

no_call == [branch |-> <<>>, reason |-> "", force |-> FALSE, ret |-> "none", pass |-> "none"]

Exit(code) ==
    /\ pc' = "done"
    /\ exit_code' = code

-----------------------------------------------------------------------------
(* The state of a script that is not the one running *)

\* an array after declare -g -a: no value was assigned to it
unset_array == [assigned |-> FALSE, items |-> <<>>]

no_run == [report |-> <<>>, exit_code |-> NoExit]

AuditIdle ==
    /\ OUTPUT_FORMAT = "text"
    /\ CHECK_REMOTE = FALSE
    /\ EXIT_CODE = 0
    /\ all_branches = <<>>
    /\ naming_violations = unset_array
    /\ stale_merged = unset_array
    /\ stale_unmerged = unset_array
    /\ orphaned_agent = unset_array
    /\ report = <<>>
    /\ clock = 0
    /\ last_commit_date = <<>>
    /\ run_no = 0
    /\ first_run = no_run

NamingIdle ==
    /\ name_arg = <<>>
    /\ name_status = NoExit

no_prov_run == [exit_code |-> NoExit, tips |-> <<>>]

no_log_call == [op |-> "none"]

LogIdle ==
    /\ agent_communications = <<>>
    /\ mcp_tool_calls = <<>>
    /\ loki_stream = <<>>
    /\ log_clock = 0
    /\ warnings = 0
    /\ last_call = no_log_call
    /\ last_result = [kind |-> "none"]

ProvIdle ==
    /\ TASK_DESCRIPTION = <<>>
    /\ SESSION_ID = <<>>
    /\ BASE_BRANCH = n_develop
    /\ AGENT_TYPE = <<"c","l","a","u","d","e">>
    /\ BRANCH_NAME = <<>>
    /\ sanitized_task = <<>>
    /\ HEAD = <<>>
    /\ local_tips = <<>>
    /\ origin_tips = <<>>
    /\ worktree_dirty = FALSE
    /\ stash_list = 0
    /\ branch_description = {}
    /\ git_ops = <<>>
    /\ prov_run = 0
    /\ first_prov_run = no_prov_run

CleanupIdle ==
    /\ cwd_has_git = TRUE
    /\ tags0 = {}
    /\ refs_tags = {}
    /\ remote_tags = {}
    /\ DRY_RUN = FALSE
    /\ AUTO_MODE = FALSE
    /\ KEEP_MERGED_DAYS = DEFAULT_KEEP_MERGED_DAYS
    /\ ARCHIVE_UNMERGED = FALSE
    /\ BRANCH_PATTERN = pat_default
    /\ CLEANUP_REMOTE = FALSE
    /\ DELETED_COUNT = 0
    /\ ARCHIVED_COUNT = 0
    /\ SKIPPED_COUNT = 0
    /\ FAILED_COUNT = 0
    /\ branches = <<>>
    /\ call = no_call
    /\ logfile = <<>>
    /\ tty = <<>>
    /\ summary_printed = FALSE

-----------------------------------------------------------------------------
(* Initial state: the script's globals at their defaults, a command line and
   a repository drawn from the bounded sets *)

ArgvOk ==
    [kind : {"ok"}, dry_run : BOOLEAN, auto : BOOLEAN,
     keep_merged : KeepMergedValues, stale_days : {DEFAULT_STALE_DAYS},
     archive_unmerged : BOOLEAN, branches : Patterns, remote : BOOLEAN]

\* --stale-days with the other thresholds and switches at their defaults
ArgvStaleDays ==
    [kind : {"ok"}, dry_run : BOOLEAN, auto : BOOLEAN,
     keep_merged : {DEFAULT_KEEP_MERGED_DAYS}, stale_days : {LONG_STALE_DAYS},
     archive_unmerged : {FALSE}, branches : {pat_default}, remote : {FALSE}]

ArgvStop ==
    [kind : {"help", "unknown"}, dry_run : {FALSE}, auto : {FALSE},
     keep_merged : {DEFAULT_KEEP_MERGED_DAYS}, stale_days : {DEFAULT_STALE_DAYS},
     archive_unmerged : {FALSE}, branches : {pat_default}, remote : {FALSE}]

\* develop and main are ancestors of themselves; nothing is merged when
\* neither base exists
AncestryOk(hs, anc) ==
    /\ n_develop \in hs => anc[n_develop]
    /\ n_main \in hs => anc[n_main]
    /\ (n_develop \notin hs /\ n_main \notin hs) => \A b \in hs : ~anc[b]

\* the commit an archive tag of an earlier run points at
old_commit == <<"o","l","d">>

\* the tags an earlier run left: none, or the archive tag of one unmerged
\* branch outside main, develop and master; tags are read only by the git tag
\* of archive_branch, in a run with --archive-unmerged and without --dry-run
EarlierTags(args, hs, anc) ==
    {{}} \cup
    {{[name |-> tag_name(b), commit |-> old_commit]} :
        b \in {h \in hs : /\ args.archive_unmerged
                          /\ ~args.dry_run
                          /\ ~anc[h]
                          /\ h \notin {n_main, n_develop, n_master}}}

Init ==
    /\ argv \in ArgvOk \cup ArgvStaleDays \cup ArgvStop
    /\ cwd_has_git \in BOOLEAN
    /\ repo_is_git \in BOOLEAN
    /\ heads0 \in {hs \in SUBSET Names : Cardinality(hs) <= MaxBranches}
    \* the repository is read only by a run that gets past validate_repo
    /\ (argv.kind # "ok" \/ ~repo_is_git) => heads0 = {}
    \* the current directory is read only by error
    /\ (argv.kind = "ok" /\ repo_is_git) => cwd_has_git
    /\ commit_age \in [heads0 -> Ages]
    /\ ancestor_of_base \in [heads0 -> BOOLEAN]
    /\ AncestryOk(heads0, ancestor_of_base)
    /\ refs_heads = heads0
    /\ tags0 \in EarlierTags(argv, heads0, ancestor_of_base)
    /\ refs_tags = tags0
    /\ remote_heads = heads0
    /\ remote_tags = {}
    /\ DRY_RUN = FALSE
    /\ AUTO_MODE = FALSE
    /\ KEEP_MERGED_DAYS = DEFAULT_KEEP_MERGED_DAYS
    /\ STALE_DAYS = DEFAULT_STALE_DAYS
    /\ ARCHIVE_UNMERGED = FALSE
    /\ BRANCH_PATTERN = pat_default
    /\ CLEANUP_REMOTE = FALSE
    /\ DELETED_COUNT = 0
    /\ ARCHIVED_COUNT = 0
    /\ SKIPPED_COUNT = 0
    /\ FAILED_COUNT = 0
    /\ pc = "parse_args"
    /\ branches = <<>>
    /\ idx = 1
    /\ call = no_call
    /\ logfile = <<>>
    /\ tty = <<>>
    /\ summary_printed = FALSE
    /\ exit_code = NoExit
    /\ AuditIdle
    /\ NamingIdle
    /\ ProvIdle
    /\ LogIdle

-----------------------------------------------------------------------------
(* error: the message is logged to .git/cleanup-log.txt of the current
   directory, then exit 3; when that file cannot be written the failing echo
   ends the script with status 1 *)

error_exit_code == IF errexit(IF cwd_has_git THEN 0 ELSE 1) THEN 1 ELSE 3

ParseArgs ==
    /\ pc = "parse_args"
    /\ IF argv.kind = "help" THEN
            /\ Exit(0)
            /\ UNCHANGED opt_vars
       ELSE IF argv.kind = "unknown" THEN
            /\ Exit(error_exit_code)
            /\ UNCHANGED opt_vars
       ELSE
            /\ DRY_RUN' = argv.dry_run
            /\ AUTO_MODE' = argv.auto
            /\ KEEP_MERGED_DAYS' = argv.keep_merged
            /\ STALE_DAYS' = argv.stale_days
            /\ ARCHIVE_UNMERGED' = argv.archive_unmerged
            /\ BRANCH_PATTERN' = argv.branches
            /\ CLEANUP_REMOTE' = argv.remote
            /\ pc' = "validate_repo"
            /\ UNCHANGED exit_code
    /\ UNCHANGED <<env_vars, repo_vars, count_vars, branches, idx, call,
                   logfile, tty, summary_printed>>

ValidateRepo ==
    /\ pc = "validate_repo"
    /\ IF ~repo_is_git THEN Exit(error_exit_code)
       ELSE /\ pc' = "cleanup_merged_branches"
            /\ UNCHANGED exit_code
    /\ UNCHANGED <<env_vars, repo_vars, opt_vars, count_vars, branches, idx,
                   call, logfile, tty, summary_printed>>


-----------------------------------------------------------------------------
(* delete_branch *)

\* delete_branch without its dry-run check
delete_ignores_dry_run == FALSE

\* if [[ "$DRY_RUN" == "true" ]] in delete_branch
delete_dry_run == DRY_RUN = TRUE

\* git branch -d refuses a branch that is not merged, git branch -D does not;
\* either can fail for other reasons (env_ok is FALSE)
git_branch_delete(branch, force, env_ok) ==
    /\ env_ok
    /\ branch \in refs_heads
    /\ force \/ ancestor_of_base[branch]

DeleteBranch ==
    /\ pc = "delete_branch"
    /\ \E env_ok \in BOOLEAN, push_ok \in BOOLEAN :
        LET b == call.branch
            attempt == Append(logfile, delete_line("Attempting to delete"))
        IN
        IF delete_dry_run THEN
            /\ logfile' = Append(attempt, delete_line("[DRY-RUN] Would delete"))
            /\ DELETED_COUNT' = DELETED_COUNT + 1
            /\ IF errexit(post_incr_status(DELETED_COUNT))
               THEN Exit(1)
               ELSE pc' = call.ret /\ UNCHANGED exit_code
            /\ UNCHANGED <<repo_vars, FAILED_COUNT>>
        ELSE IF git_branch_delete(b, call.force, env_ok) THEN
            /\ refs_heads' = refs_heads \ {b}
            /\ DELETED_COUNT' = DELETED_COUNT + 1
            /\ IF errexit(post_incr_status(DELETED_COUNT)) THEN
                    /\ logfile' = Append(attempt, delete_line("Deleted"))
                    /\ Exit(1)
                    /\ UNCHANGED remote_heads
               ELSE
                    /\ IF CLEANUP_REMOTE THEN
                            IF push_ok /\ b \in remote_heads THEN
                                /\ remote_heads' = remote_heads \ {b}
                                /\ logfile' = Append(Append(attempt, delete_line("Deleted")),
                                                     line("Deleted remote branch", b))
                            ELSE
                                /\ logfile' = Append(Append(attempt, delete_line("Deleted")),
                                                     line("Failed to delete remote branch", b))
                                /\ UNCHANGED remote_heads
                       ELSE
                            /\ logfile' = Append(attempt, delete_line("Deleted"))
                            /\ UNCHANGED remote_heads
                    /\ pc' = call.ret
                    /\ UNCHANGED exit_code
            /\ UNCHANGED <<refs_tags, remote_tags, FAILED_COUNT>>
        ELSE
            \* ((FAILED_COUNT++)) ends the script when the counter was 0, and
            \* otherwise return 1 does, delete_branch being a simple command
            /\ logfile' = Append(attempt, delete_line("Failed to delete"))
            /\ FAILED_COUNT' = FAILED_COUNT + 1
            /\ IF errexit(post_incr_status(FAILED_COUNT)) \/ errexit(1)
               THEN Exit(1)
               ELSE pc' = call.ret /\ UNCHANGED exit_code
            /\ UNCHANGED <<repo_vars, DELETED_COUNT>>
    /\ UNCHANGED <<env_vars, opt_vars, ARCHIVED_COUNT, SKIPPED_COUNT, branches,
                   idx, call, tty, summary_printed>>

-----------------------------------------------------------------------------
(* cleanup_merged_branches *)

ScanMerged ==
    /\ pc = "cleanup_merged_branches"
    /\ branches' = mapfile_pattern(BRANCH_PATTERN)
    /\ idx' = 1
    /\ pc' = "merged_loop"
    /\ UNCHANGED <<env_vars, repo_vars, opt_vars, count_vars, call, logfile,
                   tty, summary_printed, exit_code>>

\* the merged branch is old enough to delete
merged_old_enough(age) == age > KEEP_MERGED_DAYS

MergedLoop ==
    /\ pc = "merged_loop"
    /\ IF idx > Len(branches) THEN
            /\ pc' = "cleanup_stale_unmerged"
            /\ UNCHANGED <<idx, call>>
       ELSE LET b == branches[idx] IN
            /\ idx' = idx + 1
            /\ IF ~is_protected(b) /\ is_merged(b)
                  /\ merged_old_enough(get_branch_age(b))
               THEN /\ call' = [branch |-> b, reason |-> "merged and older than",
                                force |-> FALSE, ret |-> "merged_loop",
                                pass |-> "merged"]
                    /\ pc' = "delete_branch"
               ELSE UNCHANGED <<pc, call>>
    /\ UNCHANGED <<env_vars, repo_vars, opt_vars, count_vars, branches, logfile,
                   tty, summary_printed, exit_code>>


-----------------------------------------------------------------------------
(* archive_branch *)

\* if [[ "$DRY_RUN" == "true" ]] in archive_branch
archive_dry_run == DRY_RUN = TRUE

\* git tag taken to replace a tag that exists, as git tag -f does
git_tag_overwriting(t, env_ok) == env_ok

\* git tag refuses a name that exists, and can fail for other reasons
git_tag(t, env_ok) == env_ok /\ ~tag_exists(t)

ArchiveBranch ==
    /\ pc = "archive_branch"
    /\ \E env_ok \in BOOLEAN, push_ok \in BOOLEAN :
        LET b == call.branch
            t == tag_name(b)
        IN
        IF archive_dry_run THEN
            /\ logfile' = Append(logfile, line("[DRY-RUN] Would create tag", b))
            /\ pc' = "confirm_deletion"
            /\ UNCHANGED <<refs_tags, remote_tags, ARCHIVED_COUNT, exit_code>>
        ELSE IF git_tag(t, env_ok) THEN
            /\ refs_tags' = refs_tags \cup {[name |-> t, commit |-> tip(b)]}
            /\ ARCHIVED_COUNT' = ARCHIVED_COUNT + 1
            /\ IF errexit(post_incr_status(ARCHIVED_COUNT)) THEN
                    /\ logfile' = Append(logfile, line("Created archive tag", b))
                    /\ Exit(1)
                    /\ UNCHANGED remote_tags
               ELSE
                    /\ IF CLEANUP_REMOTE THEN
                            IF push_ok THEN
                                /\ remote_tags' = remote_tags \cup
                                        {[name |-> t, commit |-> tip(b)]}
                                /\ logfile' = Append(logfile, line("Created archive tag", b))
                            ELSE
                                /\ logfile' = Append(Append(logfile,
                                                line("Created archive tag", b)),
                                                line("Failed to push tag", b))
                                /\ UNCHANGED remote_tags
                       ELSE
                            /\ logfile' = Append(logfile, line("Created archive tag", b))
                            /\ UNCHANGED remote_tags
                    /\ pc' = "confirm_deletion"
                    /\ UNCHANGED exit_code
        ELSE
            \* return 1 of a simple command
            /\ logfile' = Append(logfile, line("Failed to create archive tag", b))
            /\ IF errexit(1) THEN Exit(1)
               ELSE pc' = "confirm_deletion" /\ UNCHANGED exit_code
            /\ UNCHANGED <<refs_tags, remote_tags, ARCHIVED_COUNT>>
    /\ UNCHANGED <<env_vars, opt_vars, refs_heads, remote_heads, DELETED_COUNT,
                   SKIPPED_COUNT, FAILED_COUNT, branches, idx, call, tty,
                   summary_printed>>

-----------------------------------------------------------------------------
(* confirm_deletion and the if statement that calls it *)

\* confirm_deletion taking any reply for a yes
confirm_deletion_any_reply(reply) == 0

\* [[ $REPLY =~ ^[Yy]$ ]]: status 0 for yes
confirm_deletion(reply) == IF reply \in {"y", "Y"} THEN 0 ELSE 1

ConfirmDeletion ==
    /\ pc = "confirm_deletion"
    /\ \E reply \in Replies :
        LET b == call.branch IN
        IF AUTO_MODE THEN
            /\ pc' = "delete_branch"
            /\ UNCHANGED <<tty, logfile, SKIPPED_COUNT, exit_code>>
        ELSE
            /\ tty' = Append(tty, [branch |-> b, reply |-> reply])
            /\ IF confirm_deletion(reply) = 0 THEN
                    /\ pc' = "delete_branch"
                    /\ UNCHANGED <<logfile, SKIPPED_COUNT, exit_code>>
               ELSE
                    \* only cleanup_stale_unmerged reports the skip
                    /\ logfile' = IF call.pass = "stale"
                                  THEN Append(logfile, line("Skipped", b))
                                  ELSE logfile
                    /\ SKIPPED_COUNT' = SKIPPED_COUNT + 1
                    /\ IF errexit(post_incr_status(SKIPPED_COUNT))
                       THEN Exit(1)
                       ELSE pc' = call.ret /\ UNCHANGED exit_code
    /\ UNCHANGED <<env_vars, repo_vars, opt_vars, DELETED_COUNT, ARCHIVED_COUNT,
                   FAILED_COUNT, branches, idx, call, summary_printed>>

\* the unmerged passes without their archive step
unmerged_next_step_no_archive == "confirm_deletion"

\* the step after an unmerged branch was found stale or orphaned
unmerged_next_step ==
    IF ARCHIVE_UNMERGED THEN "archive_branch" ELSE "confirm_deletion"

-----------------------------------------------------------------------------
(* cleanup_stale_unmerged *)

ScanStale ==
    /\ pc = "cleanup_stale_unmerged"
    /\ branches' = mapfile_pattern(BRANCH_PATTERN)
    /\ idx' = 1
    /\ pc' = "stale_loop"
    /\ UNCHANGED <<env_vars, repo_vars, opt_vars, count_vars, call, logfile,
                   tty, summary_printed, exit_code>>

StaleLoop ==
    /\ pc = "stale_loop"
    /\ IF idx > Len(branches) THEN
            /\ pc' = "cleanup_orphaned_agent_branches"
            /\ UNCHANGED <<idx, call>>
       ELSE LET b == branches[idx] IN
            /\ idx' = idx + 1
            /\ IF ~is_protected(b) /\ ~is_merged(b)
                  /\ get_branch_age(b) > STALE_DAYS
               THEN /\ call' = [branch |-> b, reason |-> "unmerged but stale",
                                force |-> TRUE, ret |-> "stale_loop",
                                pass |-> "stale"]
                    /\ pc' = unmerged_next_step
               ELSE UNCHANGED <<pc, call>>
    /\ UNCHANGED <<env_vars, repo_vars, opt_vars, count_vars, branches, logfile,
                   tty, summary_printed, exit_code>>

-----------------------------------------------------------------------------
(* cleanup_orphaned_agent_branches *)

ScanOrphaned ==
    /\ pc = "cleanup_orphaned_agent_branches"
    /\ branches' = mapfile_agent
    /\ idx' = 1
    /\ pc' = "orphaned_loop"
    /\ UNCHANGED <<env_vars, repo_vars, opt_vars, count_vars, call, logfile,
                   tty, summary_printed, exit_code>>

\* first if of the loop body: orphaned if >60 days and unmerged
OrphanedLoop ==
    /\ pc = "orphaned_loop"
    /\ IF idx > Len(branches) THEN
            /\ pc' = "print_summary"
            /\ UNCHANGED call
       ELSE LET b == branches[idx] IN
            IF get_branch_age(b) > ORPHAN_DAYS /\ ~is_merged(b)
            THEN /\ call' = [branch |-> b, reason |-> "orphaned agent branch",
                             force |-> TRUE, ret |-> "orphaned_merged",
                             pass |-> "orphaned"]
                 /\ pc' = unmerged_next_step
            ELSE /\ pc' = "orphaned_merged"
                 /\ UNCHANGED call
    /\ UNCHANGED <<env_vars, repo_vars, opt_vars, count_vars, branches, idx,
                   logfile, tty, summary_printed, exit_code>>

\* second if of the loop body: auto-delete merged agent branches >30 days
OrphanedMerged ==
    /\ pc = "orphaned_merged"
    /\ LET b == branches[idx] IN
        /\ idx' = idx + 1
        /\ IF get_branch_age(b) > MERGED_AGENT_DAYS /\ is_merged(b)
           THEN /\ call' = [branch |-> b,
                            reason |-> "merged agent branch older than 30 days",
                            force |-> FALSE, ret |-> "orphaned_loop",
                            pass |-> "orphaned"]
                /\ pc' = "delete_branch"
           ELSE /\ pc' = "orphaned_loop"
                /\ UNCHANGED call
    /\ UNCHANGED <<env_vars, repo_vars, opt_vars, count_vars, branches, logfile,
                   tty, summary_printed, exit_code>>

-----------------------------------------------------------------------------
(* print_summary and the exit codes of main *)

main_exit_code ==
    IF FAILED_COUNT > 0 THEN 1
    ELSE IF DELETED_COUNT = 0 /\ ARCHIVED_COUNT = 0 THEN 2
    ELSE 0

PrintSummary ==
    /\ pc = "print_summary"
    /\ summary_printed' = TRUE
    /\ Exit(main_exit_code)
    /\ UNCHANGED <<env_vars, repo_vars, opt_vars, count_vars, branches, idx,
                   call, logfile, tty>>

-----------------------------------------------------------------------------

Next ==
    \/ ParseArgs
    \/ ValidateRepo
    \/ ScanMerged
    \/ MergedLoop
    \/ ScanStale
    \/ StaleLoop
    \/ ScanOrphaned
    \/ OrphanedLoop
    \/ OrphanedMerged
    \/ ArchiveBranch
    \/ ConfirmDeletion
    \/ DeleteBranch
    \/ PrintSummary

Spec == Init /\ [][Next]_vars

TypeOK ==
    /\ pc \in {"parse_args", "validate_repo", "cleanup_merged_branches",
               "merged_loop", "cleanup_stale_unmerged", "stale_loop",
               "cleanup_orphaned_agent_branches", "orphaned_loop",
               "orphaned_merged", "archive_branch", "confirm_deletion",
               "delete_branch", "print_summary", "done"}
    /\ exit_code \in {NoExit, 0, 1, 2, 3}
    /\ refs_heads \subseteq heads0


-----------------------------------------------------------------------------
(* Properties of a cleanup run *)

ProtectedNames == {n_main, n_develop, n_master}

DeleteMsgs == {"Attempting to delete", "[DRY-RUN] Would delete", "Deleted",
               "Failed to delete"}

ArchiveMsgs == {"[DRY-RUN] Would create tag", "Created archive tag",
                "Failed to create archive tag"}

FailureMsgs == {"Failed to delete", "Failed to create archive tag",
                "Failed to delete remote branch", "Failed to push tag"}

LogIdx == 1..Len(logfile)

\* the run got past parse_args and validate_repo
CleanupRan == argv.kind = "ok" /\ repo_is_git

RunEnded == pc = "done" /\ CleanupRan

AnsweredYes(b) ==
    \E j \in 1..Len(tty) : tty[j].branch = b /\ tty[j].reply \in {"y", "Y"}

Declined(b) ==
    /\ \E j \in 1..Len(tty) : tty[j].branch = b
    /\ ~AnsweredYes(b)

DeclinedPrompts == {j \in 1..Len(tty) : tty[j].reply \notin {"y", "Y"}}

WouldDeleteCount(b) ==
    Cardinality({i \in LogIdx : /\ logfile[i].msg = "[DRY-RUN] Would delete"
                                /\ logfile[i].branch = b})

\* a branch the merged pass or the stale pass is meant to delete
Candidate(b) ==
    /\ b \notin ProtectedNames
    /\ grep_E(BRANCH_PATTERN, b)
    /\ \/ ancestor_of_base[b] /\ commit_age[b] > KEEP_MERGED_DAYS
       \/ ~ancestor_of_base[b] /\ commit_age[b] > STALE_DAYS

\* C1: no delete attempt and no archive-tag creation is ever issued for main,
\* develop or master, and these branches are never removed
C1_ProtectedNeverTouched ==
    /\ \A i \in LogIdx :
        logfile[i].msg \in DeleteMsgs \cup ArchiveMsgs
            => logfile[i].branch \notin ProtectedNames
    /\ \A b \in ProtectedNames : b \in heads0 => b \in refs_heads
    /\ \A r \in refs_tags \cup remote_tags :
        \A b \in ProtectedNames : r.name # tag_name(b)

\* the merged pass and the stale pass have gone over a master branch that is
\* merged and older than the keep-merged days
C1_Witness ==
    /\ pc = "cleanup_orphaned_agent_branches"
    /\ BRANCH_PATTERN = pat_default
    /\ n_master \in refs_heads
    /\ ancestor_of_base[n_master]
    /\ commit_age[n_master] > KEEP_MERGED_DAYS

\* C2: with --dry-run the local and remote branches and tags stay what they
\* were when the run started (the modelled repositories start without
\* remote tags and with every local branch on the remote)
C2_DryRunChangesNothing ==
    DRY_RUN =>
        /\ refs_heads = heads0
        /\ remote_heads = heads0
        /\ refs_tags = tags0
        /\ remote_tags = {}

\* a dry run with --remote that reported an archive and a delete
C2_Witness ==
    /\ DRY_RUN
    /\ CLEANUP_REMOTE
    /\ pc = "done"
    /\ \E i \in LogIdx : logfile[i].msg = "[DRY-RUN] Would create tag"
    /\ \E i \in LogIdx : logfile[i].msg = "[DRY-RUN] Would delete"

\* C3: an unmerged branch is deleted, or a delete of it attempted, only with
\* --auto or after a yes to a prompt for that branch; at exit a branch whose
\* prompts were all declined exists, and every declined prompt is counted in
\* SKIPPED_COUNT
C3_UnmergedNeedsConfirmation ==
    /\ \A b \in heads0 \ refs_heads :
        ~ancestor_of_base[b] => AUTO_MODE \/ AnsweredYes(b)
    /\ \A i \in LogIdx :
        (logfile[i].msg \in DeleteMsgs /\ ~ancestor_of_base[logfile[i].branch])
            => AUTO_MODE \/ AnsweredYes(logfile[i].branch)
    /\ pc = "done" =>
        /\ \A b \in heads0 : Declined(b) => b \in refs_heads
        /\ SKIPPED_COUNT = Cardinality(DeclinedPrompts)

\* a run without --auto and without --dry-run ended after a declined prompt
C3_Witness ==
    /\ pc = "done"
    /\ ~AUTO_MODE
    /\ ~DRY_RUN
    /\ \E b \in heads0 : Declined(b) /\ ~ancestor_of_base[b]
    /\ SKIPPED_COUNT > 0

\* C4: with --archive-unmerged every delete action on an unmerged branch is
\* preceded in the run by an archive action on the same branch
C4_ArchiveBeforeDelete ==
    ARCHIVE_UNMERGED =>
        \A i \in LogIdx :
            (logfile[i].msg \in DeleteMsgs /\ ~ancestor_of_base[logfile[i].branch])
                => \E j \in 1..(i - 1) :
                    /\ logfile[j].msg \in ArchiveMsgs
                    /\ logfile[j].branch = logfile[i].branch

\* with --archive-unmerged a delete action on an unmerged branch was reported
C4_Witness ==
    /\ ARCHIVE_UNMERGED
    /\ \E i \in LogIdx :
        /\ logfile[i].msg = "[DRY-RUN] Would delete"
        /\ ~ancestor_of_base[logfile[i].branch]

\* C5: a non-dry-run --auto run in which no git operation failed ends with
\* every candidate branch deleted
C5_AutoRunDeletesEveryCandidate ==
    (/\ RunEnded
     /\ ~DRY_RUN
     /\ AUTO_MODE
     /\ \A i \in LogIdx : logfile[i].msg \notin FailureMsgs)
        => \A b \in heads0 : Candidate(b) => b \notin refs_heads

\* C6: in a non-dry-run cleanup a failed delete is counted and the run goes
\* on to the summary and exits with status 1
C6_FailedDeleteDoesNotAbort ==
    (/\ RunEnded
     /\ ~DRY_RUN
     /\ \E i \in LogIdx : logfile[i].msg = "Failed to delete")
        => /\ FAILED_COUNT > 0
           /\ summary_printed
           /\ exit_code = 1

\* C7: no delete action is taken on a merged branch whose age is at most the
\* --keep-merged value
C7_KeepMergedRespected ==
    \A i \in LogIdx :
        (logfile[i].msg \in DeleteMsgs /\ ancestor_of_base[logfile[i].branch])
            => commit_age[logfile[i].branch] > KEEP_MERGED_DAYS

\* C8: no archive or delete action is taken on a branch whose name does not
\* match the --branches pattern
C8_OnlyMatchingBranches ==
    \A i \in LogIdx :
        logfile[i].msg \in DeleteMsgs \cup ArchiveMsgs
            => grep_E(BRANCH_PATTERN, logfile[i].branch)

\* C9: a dry run reports exactly one would-delete, issued as a non-forced
\* delete, for every non-protected merged branch older than the keep-merged
\* days
C9_DryRunOneWouldDelete ==
    (RunEnded /\ DRY_RUN) =>
        \A b \in heads0 :
            (/\ b \notin ProtectedNames
             /\ ancestor_of_base[b]
             /\ commit_age[b] > KEEP_MERGED_DAYS)
                => /\ WouldDeleteCount(b) = 1
                   /\ \A i \in LogIdx :
                        (logfile[i].msg = "[DRY-RUN] Would delete"
                         /\ logfile[i].branch = b)
                            => logfile[i].reason \in
                                {"merged and older than",
                                 "merged agent branch older than 30 days"}

\* C10: a cleanup run on a valid repository exits 1 exactly when a deletion
\* failed, otherwise 0 when a branch was deleted or archived, otherwise 2;
\* status 3 is returned only for a bad option or a directory that is not a
\* repository
C10_ExitCodes ==
    /\ RunEnded =>
        /\ exit_code = 1 <=> FAILED_COUNT > 0
        /\ (FAILED_COUNT = 0 /\ (DELETED_COUNT > 0 \/ ARCHIVED_COUNT > 0))
                => exit_code = 0
        /\ (FAILED_COUNT = 0 /\ DELETED_COUNT = 0 /\ ARCHIVED_COUNT = 0)
                => exit_code = 2
    /\ exit_code = 3 => ~CleanupRan


\* what a run finds to act on, read off the repository and the options other
\* than --dry-run
MergedDue(b) ==
    /\ b \notin ProtectedNames
    /\ grep_E(BRANCH_PATTERN, b)
    /\ ancestor_of_base[b]
    /\ commit_age[b] > KEEP_MERGED_DAYS

StaleDue(b) ==
    /\ b \notin ProtectedNames
    /\ grep_E(BRANCH_PATTERN, b)
    /\ ~ancestor_of_base[b]
    /\ commit_age[b] > STALE_DAYS

AgentDue(b) ==
    /\ grep_agent(b)
    /\ \/ ~ancestor_of_base[b] /\ commit_age[b] > ORPHAN_DAYS
       \/ ancestor_of_base[b] /\ commit_age[b] > MERGED_AGENT_DAYS

ExitStatusFromInputs ==
    IF \E b \in heads0 : MergedDue(b) \/ StaleDue(b) \/ AgentDue(b)
    THEN 1 ELSE 2

LinesWith(msgs) == Cardinality({i \in LogIdx : logfile[i].msg \in msgs})

\* C12: every deleted, archived, skipped and failed branch has its line in
\* the log file, so the lines of each kind are as many as the counter says
C12_OutcomesLogged ==
    /\ DELETED_COUNT = LinesWith({"Deleted", "[DRY-RUN] Would delete"})
    /\ ARCHIVED_COUNT = LinesWith({"Created archive tag"})
    /\ SKIPPED_COUNT = LinesWith({"Skipped"})
    /\ FAILED_COUNT = LinesWith({"Failed to delete"})


-----------------------------------------------------------------------------
(* The naming classifier of scripts/git/branch-audit.sh.  A pattern of
   VALID_PATTERNS is a sequence of items, each a character set with the least
   and the most repetitions it takes (hi < 0: no upper limit); all the
   patterns are anchored with ^ and $ *)

LowerChars == {"a","b","c","d","e","f","g","h","i","j","k","l","m","n","o","p","q","r","s","t","u","v","w","x","y","z"}
UpperChars == {"A","B","C","D","E","F","G","H","I","J","K","L","M","N","O","P","Q","R","S","T","U","V","W","X","Y","Z"}
DigitChars == {"0","1","2","3","4","5","6","7","8","9"}

re_lit(str) == [i \in 1..Len(str) |-> [cs |-> {str[i]}, lo |-> 1, hi |-> 1]]

re_plus(cs) == <<[cs |-> cs, lo |-> 1, hi |-> 0 - 1]>>

re_range(cs, lo, hi) == <<[cs |-> cs, lo |-> lo, hi |-> hi]>>

\* [a-z0-9-]
TaskChars == LowerChars \cup DigitChars \cup {"-"}

\* [A-Za-z0-9]
AlnumChars == UpperChars \cup LowerChars \cup DigitChars

SESSION_MIN == 24
SESSION_MAX == 32

VALID_PATTERNS == <<
    re_lit(<<"m","a","i","n">>),
    re_lit(<<"d","e","v","e","l","o","p">>),
    re_lit(<<"f","e","a","t","u","r","e","/">>) \o re_plus(TaskChars),
    re_lit(<<"f","i","x","/">>) \o re_plus(TaskChars),
    re_lit(<<"h","o","t","f","i","x","/">>) \o re_plus(TaskChars),
    re_lit(<<"c","l","a","u","d","e","/">>) \o re_plus(TaskChars) \o re_lit(<<"-">>)
        \o re_range(AlnumChars, SESSION_MIN, SESSION_MAX),
    re_lit(<<"a","g","e","n","t","/">>) \o re_plus(TaskChars) \o re_lit(<<"/">>)
        \o re_plus(TaskChars) \o re_lit(<<"-">>)
        \o re_range(AlnumChars, SESSION_MIN, SESSION_MAX),
    re_lit(<<"r","e","l","e","a","s","e","/","v">>) \o re_plus(DigitChars) \o re_lit(<<".">>)
        \o re_plus(DigitChars) \o re_lit(<<".">>) \o re_plus(DigitChars)
>>

RECURSIVE re_match_from(_, _, _, _)
\* items k.. of pat match the characters i.. of str up to its end
re_match_from(pat, k, str, i) ==
    IF k > Len(pat) THEN i = Len(str) + 1
    ELSE LET rest == Len(str) - i + 1
             most == IF pat[k].hi < 0 \/ pat[k].hi > rest THEN rest ELSE pat[k].hi
         IN \E n \in pat[k].lo..most :
                /\ \A j \in i..(i + n - 1) : str[j] \in pat[k].cs
                /\ re_match_from(pat, k + 1, str, i + n)

\* [[ "$str" =~ $pattern ]] for a pattern anchored at both ends
re_match(pat, str) == re_match_from(pat, 1, str, 1)

\* check_naming_convention with the claude/ and agent/ patterns left out
check_naming_convention_without_agents(branch) ==
    \E p \in {1, 2, 3, 4, 5, 8} : re_match(VALID_PATTERNS[p], branch)

\* TRUE for return 0: the name matches one of VALID_PATTERNS
check_naming_convention(branch) ==
    \E p \in 1..Len(VALID_PATTERNS) : re_match(VALID_PATTERNS[p], branch)

-----------------------------------------------------------------------------
(* The examples of the naming policy *)

ex_feature_add_user_auth == <<"f","e","a","t","u","r","e","/","a","d","d","-","u","s","e","r","-","a","u","t","h">>
ex_fix_null_pointer_exception == <<"f","i","x","/","n","u","l","l","-","p","o","i","n","t","e","r","-","e","x","c","e","p","t","i","o","n">>
ex_claude_setup_ci_session == <<"c","l","a","u","d","e","/","s","e","t","u","p","-","c","i","-","0","1","K","6","x","L","n","d","e","u","5","h","U","8","p","H","3","L","6","a","W","x","n","8">>
ex_hotfix_security_cve == <<"h","o","t","f","i","x","/","s","e","c","u","r","i","t","y","-","c","v","e","-","2","0","2","5","-","1","2","3","4">>
ex_release_v1_2_0 == <<"r","e","l","e","a","s","e","/","v","1",".","2",".","0">>
ex_Feature_AddUserAuth == <<"F","e","a","t","u","r","e","/","A","d","d","U","s","e","r","A","u","t","h">>
ex_fix_null_pointer == <<"f","i","x","_","n","u","l","l","_","p","o","i","n","t","e","r">>
ex_claude_setup_ci == <<"c","l","a","u","d","e","/","s","e","t","u","p","-","c","i">>
ex_feature_add_user_auth_spaces == <<"f","e","a","t","u","r","e","/","a","d","d"," ","u","s","e","r"," ","a","u","t","h">>
ex_fix_bug_hash == <<"f","i","x","/","b","u","g","#","1","2","3">>

PolicyValidExamples == {ex_feature_add_user_auth, ex_fix_null_pointer_exception, ex_claude_setup_ci_session, ex_hotfix_security_cve, ex_release_v1_2_0}

PolicyInvalidExamples == {ex_Feature_AddUserAuth, ex_fix_null_pointer, ex_claude_setup_ci, ex_feature_add_user_auth_spaces, ex_fix_bug_hash}


-----------------------------------------------------------------------------
(* check_naming_convention as a function of the name: the name is drawn from
   the policy's examples and from prefix, task and session parts put
   together, and the one step calls the classifier on it *)

\* a session identifier of n characters of [A-Za-z0-9]
session_of_len(n) == [i \in 1..n |-> IF i % 2 = 0 THEN "7" ELSE "Q"]

NamePrefixes == {<<"f","e","a","t","u","r","e","/">>, <<"f","i","x","/">>, <<"c","l","a","u","d","e","/">>, <<"a","g","e","n","t","/","x","/">>, <<"r","e","l","e","a","s","e","/","v">>, <<"F","e","a","t","u","r","e","/">>, <<>>}

NameTasks == {<<"a">>, <<"a","-","b">>, <<"A">>, <<"a","_","b">>, <<"1",".","2",".","0">>, <<"1",".","2">>}

NameSuffixes ==
    {<<>>} \cup {<<"-">> \o session_of_len(n) :
                    n \in {SESSION_MIN - 1, SESSION_MIN, SESSION_MAX, SESSION_MAX + 1}}

NamingInputs ==
    PolicyValidExamples \cup PolicyInvalidExamples \cup {<<>>}
        \cup {p \o t \o x : p \in NamePrefixes, t \in NameTasks, x \in NameSuffixes}

cleanup_opt_vars == <<DRY_RUN, AUTO_MODE, KEEP_MERGED_DAYS, ARCHIVE_UNMERGED,
                      BRANCH_PATTERN, CLEANUP_REMOTE>>
cleanup_run_vars == <<count_vars, branches, call, logfile, tty, summary_printed>>
repository_vars == <<cwd_has_git, repo_is_git, commit_age, ancestor_of_base, heads0,
                     tags0,
                     repo_vars>>

\* no command line and no repository
NoRepository ==
    /\ argv = [kind |-> "none"]
    /\ repo_is_git = FALSE
    /\ heads0 = {}
    /\ commit_age = <<>>
    /\ ancestor_of_base = <<>>
    /\ refs_heads = {}
    /\ remote_heads = {}
    /\ STALE_DAYS = DEFAULT_STALE_DAYS
    /\ idx = 1
    /\ exit_code = NoExit

InitNaming ==
    /\ name_arg \in NamingInputs
    /\ name_status = NoExit
    /\ pc = "check_naming_convention"
    /\ NoRepository
    /\ CleanupIdle
    /\ AuditIdle
    /\ ProvIdle
    /\ LogIdle

CheckNamingConvention ==
    /\ pc = "check_naming_convention"
    /\ name_status' = IF check_naming_convention(name_arg) THEN 0 ELSE 1
    /\ pc' = "done"
    /\ UNCHANGED <<argv, repository_vars, opt_vars, cleanup_run_vars, audit_vars,
                   prov_vars, log_vars, idx, exit_code, name_arg>>

NextNaming == CheckNamingConvention

SpecNaming == InitNaming /\ [][NextNaming]_vars

\* C14: the classifier returns compliant (status 0) for every name of the
\* policy's valid examples, and non-compliant (status 1) for every name of
\* its invalid examples and for the empty string
C14_PolicyExamplesClassified ==
    name_status # NoExit =>
        /\ name_arg \in PolicyValidExamples => name_status = 0
        /\ name_arg \in PolicyInvalidExamples \cup {<<>>} => name_status = 1

C14_Witness ==
    /\ name_arg = ex_claude_setup_ci_session
    /\ name_status = 0


-----------------------------------------------------------------------------
(* scripts/git/branch-audit.sh: an audit of a repository, and a second audit
   of the same repository with the same command line some time later *)

MaxAuditBranches == 2

AUDIT_DEFAULT_STALE_DAYS == 30
AUDIT_ORPHAN_DAYS == 60
SECONDS_PER_DAY == 86400

\* date +%s when the first audit starts
Now0 == 20000 * SECONDS_PER_DAY

\* seconds between the two audits: the next second, the next day
Elapsed == {1, SECONDS_PER_DAY}

AuditStaleDays == {AUDIT_DEFAULT_STALE_DAYS, 40, 90}

OutputFormats == {"text", "json", "markdown", "md", "xml"}

AuditArgvOk ==
    [kind : {"ok"}, stale_days : AuditStaleDays, output : OutputFormats,
     check_remote : BOOLEAN]

AuditArgvStop ==
    [kind : {"help", "unknown"}, stale_days : {AUDIT_DEFAULT_STALE_DAYS},
     output : {"text"}, check_remote : {FALSE}]

\* the globals of a starting audit process
AuditStart ==
    /\ STALE_DAYS = AUDIT_DEFAULT_STALE_DAYS
    /\ OUTPUT_FORMAT = "text"
    /\ CHECK_REMOTE = FALSE
    /\ EXIT_CODE = 0
    /\ all_branches = <<>>
    /\ naming_violations = unset_array
    /\ stale_merged = unset_array
    /\ stale_unmerged = unset_array
    /\ orphaned_agent = unset_array
    /\ report = <<>>
    /\ idx = 1
    /\ pc = "audit_parse_args"
    /\ exit_code = NoExit

InitAudit ==
    /\ argv \in AuditArgvOk \cup AuditArgvStop
    /\ repo_is_git \in BOOLEAN
    /\ heads0 \in {hs \in SUBSET Names : Cardinality(hs) <= MaxAuditBranches}
    \* the repository is read only by a run that gets past validate_repo
    /\ (argv.kind # "ok" \/ ~repo_is_git) => heads0 = {}
    /\ commit_age \in [heads0 -> Ages]
    /\ ancestor_of_base \in [heads0 -> BOOLEAN]
    /\ AncestryOk(heads0, ancestor_of_base)
    /\ refs_heads = heads0
    /\ remote_heads \in {heads0, {}}
    \* origin is read only under --check-remote
    /\ ~argv.check_remote => remote_heads = heads0
    /\ clock = Now0
    /\ last_commit_date = [b \in heads0 |-> Now0 - commit_age[b] * SECONDS_PER_DAY]
    /\ run_no = 1
    /\ first_run = no_run
    /\ AuditStart
    /\ CleanupIdle
    /\ NamingIdle
    /\ ProvIdle
    /\ LogIdle

audit_static_vars == <<argv, repository_vars, cleanup_opt_vars, cleanup_run_vars,
                       naming_vars, prov_vars, log_vars, last_commit_date>>
audit_array_vars == <<naming_violations, stale_merged, stale_unmerged, orphaned_agent>>

AuditParseArgs ==
    /\ pc = "audit_parse_args"
    /\ CASE argv.kind = "help" ->
                /\ Exit(0)
                /\ UNCHANGED <<STALE_DAYS, OUTPUT_FORMAT, CHECK_REMOTE>>
         [] argv.kind = "unknown" ->
                /\ Exit(3)
                /\ UNCHANGED <<STALE_DAYS, OUTPUT_FORMAT, CHECK_REMOTE>>
         [] OTHER ->
                /\ STALE_DAYS' = argv.stale_days
                /\ OUTPUT_FORMAT' = argv.output
                /\ CHECK_REMOTE' = argv.check_remote
                /\ pc' = "audit_validate_repo"
                /\ UNCHANGED exit_code
    /\ UNCHANGED <<audit_static_vars, audit_array_vars, EXIT_CODE, all_branches,
                   report, clock, run_no, first_run, idx>>

AuditValidateRepo ==
    /\ pc = "audit_validate_repo"
    /\ IF ~repo_is_git
       THEN Exit(3)
       ELSE /\ pc' = "collect_branch_data"
            /\ UNCHANGED exit_code
    /\ UNCHANGED <<audit_static_vars, audit_array_vars, STALE_DAYS, OUTPUT_FORMAT,
                   CHECK_REMOTE, EXIT_CODE, all_branches, report, clock, run_no,
                   first_run, idx>>

\* git branch | sed 's/^[* ]*//' | sort
git_branch_sorted == SelectSeq(SortedNames, LAMBDA n : n \in refs_heads)

\* git branch -r | sed 's/origin\///' | grep -v 'HEAD' | sort -u: the two
\* spaces git branch -r puts before each name stay
git_branch_r_sorted ==
    LET listed == SelectSeq(SortedNames, LAMBDA n : n \in remote_heads)
    IN [i \in 1..Len(listed) |-> <<" ", " ">> \o listed[i]]

\* the declarations and the mapfile of collect_branch_data
AuditListBranches ==
    /\ pc = "collect_branch_data"
    /\ all_branches' = IF CHECK_REMOTE THEN git_branch_r_sorted ELSE git_branch_sorted
    /\ idx' = 1
    /\ pc' = "audit_inspect"
    /\ UNCHANGED <<audit_static_vars, audit_array_vars, STALE_DAYS, OUTPUT_FORMAT,
                   CHECK_REMOTE, EXIT_CODE, report, clock, run_no, first_run,
                   exit_code>>


\* git log -1 --format=%ct "$branch" 2>/dev/null || echo "0"
audit_last_commit_date(branch) ==
    IF branch \in refs_heads THEN last_commit_date[branch] ELSE 0

\* get_branch_age of the audit: whole days from the last commit to date +%s
audit_get_branch_age(branch) ==
    (clock - audit_last_commit_date(branch)) \div SECONDS_PER_DAY

\* status of git log --format=%an "$branch" | tail -1 under pipefail
get_branch_author_status(branch) == IF branch \in refs_heads THEN 0 ELSE 128

\* arr+=("$item")
array_append(arr, item) == [assigned |-> TRUE, items |-> Append(arr.items, item)]

\* one turn of the loop of collect_branch_data, or its end
AuditInspect ==
    /\ pc = "audit_inspect"
    /\ IF idx > Len(all_branches)
       THEN /\ pc' = "generate_report"
            /\ UNCHANGED <<audit_array_vars, EXIT_CODE, idx, exit_code>>
       ELSE LET branch == all_branches[idx]
                age == audit_get_branch_age(branch)
                merged == is_merged(branch)
                violation == ~check_naming_convention(branch)
                stale == age > STALE_DAYS
                code == IF violation THEN 1 ELSE EXIT_CODE
                item == [branch |-> branch, age |-> age]
            IN IF errexit(get_branch_author_status(branch))
               THEN /\ Exit(get_branch_author_status(branch))
                    /\ UNCHANGED <<audit_array_vars, EXIT_CODE, idx>>
               ELSE /\ naming_violations' =
                           IF violation THEN array_append(naming_violations, branch)
                           ELSE naming_violations
                    /\ stale_merged' =
                           IF stale /\ merged THEN array_append(stale_merged, item)
                           ELSE stale_merged
                    /\ stale_unmerged' =
                           IF stale /\ ~merged THEN array_append(stale_unmerged, item)
                           ELSE stale_unmerged
                    /\ EXIT_CODE' = IF stale /\ code = 0 THEN 2 ELSE code
                    /\ orphaned_agent' =
                           IF grep_agent(branch) /\ age > AUDIT_ORPHAN_DAYS /\ ~merged
                           THEN array_append(orphaned_agent, item)
                           ELSE orphaned_agent
                    /\ idx' = idx + 1
                    /\ UNCHANGED <<pc, exit_code>>
    /\ UNCHANGED <<audit_static_vars, STALE_DAYS, OUTPUT_FORMAT, CHECK_REMOTE,
                   all_branches, report, clock, run_no, first_run>>

\* the arrays whose sizes the summary prints after the total, in that order
summary_arrays == <<naming_violations, stale_merged, stale_unmerged, orphaned_agent>>

\* under set -u, ${#arr[@]} of an array no value was assigned to ends the
\* script with status 1: the index of the first such line of the summary
first_unbound ==
    IF \A i \in 1..Len(summary_arrays) : summary_arrays[i].assigned
    THEN Len(summary_arrays) + 1
    ELSE CHOOSE i \in 1..Len(summary_arrays) :
             /\ ~summary_arrays[i].assigned
             /\ \A j \in 1..(i - 1) : summary_arrays[j].assigned

\* the counts of the summary lines that get printed
summary_counts ==
    <<Len(all_branches)>> \o
        [i \in 1..(first_unbound - 1) |-> Len(summary_arrays[i].items)]

\* generate_report and the exit of main
AuditReport ==
    /\ pc = "generate_report"
    /\ IF OUTPUT_FORMAT \notin {"text", "json", "markdown", "md"}
       THEN /\ Exit(3)
            /\ UNCHANGED report
       ELSE /\ report' = summary_counts
            /\ Exit(IF first_unbound <= Len(summary_arrays) THEN 1 ELSE EXIT_CODE)
    /\ UNCHANGED <<audit_static_vars, audit_array_vars, STALE_DAYS, OUTPUT_FORMAT,
                   CHECK_REMOTE, EXIT_CODE, all_branches, clock, run_no, first_run,
                   idx>>

\* a second audit that finds the arrays of the first
AuditRerun_keeping_arrays ==
    /\ pc = "done"
    /\ run_no = 1
    /\ first_run' = [report |-> report, exit_code |-> exit_code]
    /\ run_no' = 2
    /\ \E dt \in Elapsed : clock' = clock + dt
    /\ STALE_DAYS' = AUDIT_DEFAULT_STALE_DAYS
    /\ OUTPUT_FORMAT' = "text"
    /\ CHECK_REMOTE' = FALSE
    /\ EXIT_CODE' = 0
    /\ all_branches' = <<>>
    /\ report' = <<>>
    /\ idx' = 1
    /\ pc' = "audit_parse_args"
    /\ exit_code' = NoExit
    /\ UNCHANGED <<audit_static_vars, audit_array_vars>>

\* the audit is started again, later, on the repository as it is: a new
\* process, with the globals at their defaults
AuditRerun ==
    /\ pc = "done"
    /\ run_no = 1
    /\ first_run' = [report |-> report, exit_code |-> exit_code]
    /\ run_no' = 2
    /\ \E dt \in Elapsed : clock' = clock + dt
    /\ STALE_DAYS' = AUDIT_DEFAULT_STALE_DAYS
    /\ OUTPUT_FORMAT' = "text"
    /\ CHECK_REMOTE' = FALSE
    /\ EXIT_CODE' = 0
    /\ all_branches' = <<>>
    /\ naming_violations' = unset_array
    /\ stale_merged' = unset_array
    /\ stale_unmerged' = unset_array
    /\ orphaned_agent' = unset_array
    /\ report' = <<>>
    /\ idx' = 1
    /\ pc' = "audit_parse_args"
    /\ exit_code' = NoExit
    /\ UNCHANGED audit_static_vars

NextAudit ==
    \/ AuditParseArgs
    \/ AuditValidateRepo
    \/ AuditListBranches
    \/ AuditInspect
    \/ AuditReport
    \/ AuditRerun

SpecAudit == InitAudit /\ [][NextAudit]_vars

-----------------------------------------------------------------------------
(* Properties of an audit *)

\* the audit has inspected the local branches, printed a report in a known
\* format and ended
AuditEnded ==
    /\ pc = "done"
    /\ argv.kind = "ok"
    /\ repo_is_git
    /\ ~CHECK_REMOTE
    /\ OUTPUT_FORMAT \in {"text", "json", "markdown", "md"}

AuditAge(b) == (clock - last_commit_date[b]) \div SECONDS_PER_DAY

SomeViolation == \E b \in heads0 : ~check_naming_convention(b)

SomeStale == \E b \in heads0 : AuditAge(b) > STALE_DAYS

\* C13: the audit exits 1 exactly when an inspected branch violates the
\* naming policy, 2 exactly when none does and some branch is older than
\* stale-days, and 0 otherwise
C13_AuditExitStatus ==
    AuditEnded =>
        exit_code = IF SomeViolation THEN 1 ELSE IF SomeStale THEN 2 ELSE 0


SecondAuditEnded ==
    /\ run_no = 2
    /\ pc = "done"

SameAges == \A b \in heads0 : AuditAge(b) = commit_age[b]

-----------------------------------------------------------------------------
(* prepare-agent-branch.sh: the functions of the name *)

TASK_MIN == 3
TASK_MAX == 50

\* ^[A-Za-z0-9]{24,32}$
SESSION_ID_PATTERN == re_range(AlnumChars, SESSION_MIN, SESSION_MAX)

\* ^[a-z0-9-]{3,50}$
TASK_NAME_PATTERN == re_range(TaskChars, TASK_MIN, TASK_MAX)

AlphabetUpper == <<"A","B","C","D","E","F","G","H","I","J","K","L","M","N","O","P","Q","R","S","T","U","V","W","X","Y","Z">>
AlphabetLower == <<"a","b","c","d","e","f","g","h","i","j","k","l","m","n","o","p","q","r","s","t","u","v","w","x","y","z">>

\* a character left as it is
to_lower_identity(c) == c

\* ${task,,} on one character
to_lower(c) ==
    IF c \in UpperChars
    THEN AlphabetLower[CHOOSE i \in 1..Len(AlphabetUpper) : AlphabetUpper[i] = c]
    ELSE c

\* what echo "$str" writes: nothing when str is a string of echo options
echo_out(str) ==
    IF /\ Len(str) >= 2
       /\ str[1] = "-"
       /\ \A i \in 2..Len(str) : str[i] \in {"n", "e", "E"}
    THEN <<>>
    ELSE str

RECURSIVE squeeze_hyphens(_)
\* sed 's/--*/-/g'
squeeze_hyphens(str) ==
    IF Len(str) < 2 THEN str
    ELSE IF str[1] = "-" /\ str[2] = "-" THEN squeeze_hyphens(Tail(str))
    ELSE <<str[1]>> \o squeeze_hyphens(Tail(str))

RECURSIVE strip_leading_hyphens(_)
\* sed 's/^-*//'
strip_leading_hyphens(str) ==
    IF str # <<>> /\ str[1] = "-" THEN strip_leading_hyphens(Tail(str)) ELSE str

RECURSIVE strip_trailing_hyphens(_)
\* sed 's/-*$//'
strip_trailing_hyphens(str) ==
    IF str # <<>> /\ str[Len(str)] = "-"
    THEN strip_trailing_hyphens(SubSeq(str, 1, Len(str) - 1))
    ELSE str

\* the value of task when sanitize_task_name validates it
sanitized_label(task) ==
    LET lowered == [i \in 1..Len(task) |-> to_lower(task[i])]
        hyphened == [i \in 1..Len(lowered) |->
                        IF lowered[i] \in {" ", "_"} THEN "-" ELSE lowered[i]]
        cleaned == SelectSeq(echo_out(hyphened), LAMBDA c : c \in TaskChars)
        squeezed == squeeze_hyphens(echo_out(cleaned))
        stripped == strip_trailing_hyphens(strip_leading_hyphens(echo_out(squeezed)))
    IN SubSeq(stripped, 1, IF Len(stripped) > TASK_MAX THEN TASK_MAX ELSE Len(stripped))

\* sanitize_task_name returns 0 and echoes the label
sanitize_ok(task) == re_match(TASK_NAME_PATTERN, sanitized_label(task))

s_claude == <<"c","l","a","u","d","e">>
s_agent == <<"a","g","e","n","t">>

\* claude/<task>-<session> whatever the agent type
construct_branch_name_claude_only(task, session, agent) ==
    s_claude \o <<"/">> \o task \o <<"-">> \o session

construct_branch_name(task, session, agent) ==
    IF agent = s_claude
    THEN s_claude \o <<"/">> \o task \o <<"-">> \o session
    ELSE s_agent \o <<"/">> \o agent \o <<"/">> \o task \o <<"-">> \o session

\* a session identifier accepted whatever its length
validate_session_id_any_length(session_id) ==
    \A i \in 1..Len(session_id) : session_id[i] \in AlnumChars

\* validate_session_id returns: the identifier matches SESSION_ID_PATTERN
validate_session_id(session_id) == re_match(SESSION_ID_PATTERN, session_id)


-----------------------------------------------------------------------------
(* prepare-agent-branch.sh: a provisioning run in a repository with the
   branches main, develop and feature/x, and its repetition with the same
   command line *)

t_fix_auth_bug == <<"F","i","x"," ","A","u","t","h","!","!"," ","B","u","g">>
t_setup_ci == <<"s","e","t","u","p","-","c","i">>
t_short == <<"a","!">>
t_echo_option == <<"-","n">>
t_help == <<"-","-","h","e","l","p">>
t_h == <<"-","h">>
\* more than TASK_MAX characters, with a hyphen as the last one kept
t_long == [i \in 1..(TASK_MAX - 1) |-> "a"] \o <<"-","b","c","d">>

TaskDescriptions == {t_fix_auth_bug, t_setup_ci, t_short, t_echo_option, t_long, t_help}

sid_example == <<"0","1","M","9","n","P","2","Q","3","R","4","S","5","T","6","U","7","V","8","W","9","X","0","Y">>

SessionIds ==
    {sid_example, <<>>, session_of_len(SESSION_MIN - 1), session_of_len(SESSION_MAX),
     session_of_len(SESSION_MAX + 1), session_of_len(SESSION_MIN - 1) \o <<"-">>}

n_nope == <<"n","o","p","e">>

BaseBranches == {n_main, n_nope}

AgentTypes == {s_claude, s_agent, <<"B","o","t">>}

\* the command lines: no argument to four arguments
ProvArgvs ==
    {<<>>, <<t_h>>}
        \cup {<<t>> : t \in TaskDescriptions}
        \cup {<<t, i>> : t \in TaskDescriptions, i \in SessionIds}
        \cup {<<t, i, b>> : t \in TaskDescriptions, i \in SessionIds, b \in BaseBranches}
        \cup {<<t, i, n_main, a>> : t \in TaskDescriptions, i \in SessionIds,
                                    a \in AgentTypes}

\* the commits: the one main and develop start at, a newer one on origin,
\* the one of feature/x, and the merge of the newer one into feature/x
c_base == 1
c_newer == 2
c_work == 3
c_merge == 4

LocalBranches0 == [b \in {n_main, n_develop, n_feature_x} |->
                      IF b = n_feature_x THEN c_work ELSE c_base]

\* f with the branch b pointing at the commit c
with_branch(f, b, c) == [x \in DOMAIN f \cup {b} |-> IF x = b THEN c ELSE f[x]]

\* the name a run with this command line constructs, <<>> when it stops before
name_of(args) ==
    IF Len(args) >= 2 /\ validate_session_id(args[2]) /\ sanitize_ok(args[1])
    THEN construct_branch_name(sanitized_label(args[1]), args[2],
                               IF Len(args) >= 4 THEN args[4] ELSE s_claude)
    ELSE <<>>

\* the globals of a starting process
ProvStart ==
    /\ TASK_DESCRIPTION = <<>>
    /\ SESSION_ID = <<>>
    /\ BASE_BRANCH = n_develop
    /\ AGENT_TYPE = s_claude
    /\ BRANCH_NAME = <<>>
    /\ sanitized_task = <<>>
    /\ pc = "prov_main"
    /\ exit_code = NoExit

InitProv ==
    /\ argv \in ProvArgvs
    /\ repo_is_git \in BOOLEAN
    /\ HEAD \in {n_develop, n_main, n_feature_x}
    /\ worktree_dirty \in BOOLEAN
    /\ \E on_local \in BOOLEAN, on_origin \in BOOLEAN, newer \in BOOLEAN :
          LET tips == [b \in {n_main, n_develop} |-> IF newer THEN c_newer ELSE c_base]
          IN /\ local_tips = IF on_local /\ name_of(argv) # <<>>
                             THEN with_branch(LocalBranches0, name_of(argv), c_base)
                             ELSE LocalBranches0
             /\ origin_tips = IF on_origin /\ name_of(argv) # <<>>
                              THEN with_branch(tips, name_of(argv), c_base)
                              ELSE tips
    /\ stash_list = 0
    /\ branch_description = {}
    /\ git_ops = <<>>
    /\ prov_run = 1
    /\ first_prov_run = no_prov_run
    /\ ProvStart
    /\ heads0 = {}
    /\ commit_age = <<>>
    /\ ancestor_of_base = <<>>
    /\ refs_heads = {}
    /\ remote_heads = {}
    /\ STALE_DAYS = DEFAULT_STALE_DAYS
    /\ idx = 1
    /\ CleanupIdle
    /\ AuditIdle
    /\ NamingIdle
    /\ LogIdle

prov_static_vars == <<argv, repository_vars, opt_vars, cleanup_run_vars, audit_vars,
                      naming_vars, log_vars, idx, origin_tips, prov_run,
                      first_prov_run>>


\* the --help test before main, the argument count, the assignment of the
\* arguments and the test for a Git repository
ProvMain ==
    /\ pc = "prov_main"
    /\ IF \/ Len(argv) >= 1 /\ argv[1] \in {t_help, t_h}
          \/ Len(argv) < 2
       THEN \* show_help ends with exit 0
            /\ Exit(0)
            /\ UNCHANGED prov_arg_vars
       ELSE /\ TASK_DESCRIPTION' = argv[1]
            /\ SESSION_ID' = argv[2]
            /\ BASE_BRANCH' = IF Len(argv) >= 3 THEN argv[3] ELSE n_develop
            /\ AGENT_TYPE' = IF Len(argv) >= 4 THEN argv[4] ELSE s_claude
            /\ IF ~repo_is_git
               THEN Exit(1)
               ELSE /\ pc' = "validate_session_id"
                    /\ UNCHANGED exit_code
    /\ UNCHANGED <<prov_static_vars, prov_repo_vars, BRANCH_NAME, sanitized_task>>

ProvValidateSessionId ==
    /\ pc = "validate_session_id"
    /\ IF ~validate_session_id(SESSION_ID)
       THEN Exit(1)
       ELSE /\ pc' = "sanitize_task_name"
            /\ UNCHANGED exit_code
    /\ UNCHANGED <<prov_static_vars, prov_repo_vars, prov_arg_vars, BRANCH_NAME,
                   sanitized_task>>

\* sanitized_task=$(sanitize_task_name ...) and BRANCH_NAME=$(construct_branch_name ...)
ProvSanitizeTaskName ==
    /\ pc = "sanitize_task_name"
    /\ IF ~sanitize_ok(TASK_DESCRIPTION)
       THEN /\ Exit(1)
            /\ UNCHANGED <<sanitized_task, BRANCH_NAME>>
       ELSE /\ sanitized_task' = sanitized_label(TASK_DESCRIPTION)
            /\ BRANCH_NAME' = construct_branch_name(sanitized_task', SESSION_ID, AGENT_TYPE)
            /\ pc' = "validate_base_branch"
            /\ UNCHANGED exit_code
    /\ UNCHANGED <<prov_static_vars, prov_repo_vars, prov_arg_vars>>

ProvValidateBaseBranch ==
    /\ pc = "validate_base_branch"
    /\ IF BASE_BRANCH \notin DOMAIN local_tips
       THEN Exit(1)
       ELSE /\ pc' = "check_branch_exists"
            /\ UNCHANGED exit_code
    /\ UNCHANGED <<prov_static_vars, prov_repo_vars, prov_arg_vars, BRANCH_NAME,
                   sanitized_task>>

\* if git ls-remote --heads origin "$branch" | grep -q "$branch": true only
\* when the query answers and lists the name
listed_on_remote(branch, ls_remote_ok) ==
    ls_remote_ok /\ branch \in DOMAIN origin_tips

ProvCheckBranchExists ==
    /\ pc = "check_branch_exists"
    /\ \E ls_remote_ok \in BOOLEAN :
          IF BRANCH_NAME \in DOMAIN local_tips
          THEN /\ Exit(2)
               /\ UNCHANGED git_ops
          ELSE /\ git_ops' = Append(git_ops, IF ls_remote_ok THEN "ls-remote"
                                             ELSE "ls-remote failed")
               /\ IF listed_on_remote(BRANCH_NAME, ls_remote_ok)
                  THEN Exit(2)
                  ELSE /\ pc' = "update_base_branch"
                       /\ UNCHANGED exit_code
    /\ UNCHANGED <<prov_static_vars, prov_arg_vars, BRANCH_NAME, sanitized_task,
                   HEAD, local_tips, worktree_dirty, stash_list,
                   branch_description>>

\* git checkout of a branch can fail only from another branch with local
\* changes in the way
CheckoutOutcomes(from, to, dirty) ==
    IF from = to \/ ~dirty THEN {TRUE} ELSE BOOLEAN

ProvUpdateBaseBranch ==
    /\ pc = "update_base_branch"
    /\ \E fetch_ok \in BOOLEAN, pull_ok \in BOOLEAN :
          IF ~fetch_ok \/ BASE_BRANCH \notin DOMAIN origin_tips
          THEN /\ Exit(3)
               /\ UNCHANGED prov_repo_vars
          ELSE IF local_tips[BASE_BRANCH] = origin_tips[BASE_BRANCH]
          THEN /\ git_ops' = Append(git_ops, "fetch")
               /\ pc' = "create_agent_branch"
               /\ UNCHANGED <<exit_code, HEAD, local_tips, worktree_dirty, stash_list,
                              branch_description>>
          ELSE LET stashing == HEAD = BASE_BRANCH /\ worktree_dirty
                   dirty == worktree_dirty /\ ~stashing
                   ops1 == IF stashing THEN <<"fetch", "stash">> ELSE <<"fetch">>
               IN /\ worktree_dirty' = dirty
                  /\ stash_list' = IF stashing THEN stash_list + 1 ELSE stash_list
                  /\ \E checkout_ok \in CheckoutOutcomes(HEAD, BASE_BRANCH, dirty) :
                        LET head == IF checkout_ok THEN BASE_BRANCH ELSE HEAD
                            ops2 == IF checkout_ok /\ HEAD # BASE_BRANCH
                                    THEN ops1 \o <<"checkout">> ELSE ops1
                        IN /\ HEAD' = head
                           /\ IF pull_ok
                              THEN \* git pull origin "$base" merges into the
                                   \* branch that is checked out
                                   /\ local_tips' =
                                          [local_tips EXCEPT ![head] =
                                              IF @ = c_base THEN origin_tips[BASE_BRANCH]
                                              ELSE c_merge]
                                   /\ git_ops' = git_ops \o ops2 \o <<"pull">>
                                   /\ pc' = "create_agent_branch"
                                   /\ UNCHANGED exit_code
                              ELSE /\ Exit(3)
                                   /\ git_ops' = git_ops \o ops2
                                   /\ UNCHANGED local_tips
                  /\ UNCHANGED branch_description
    /\ UNCHANGED <<prov_static_vars, prov_arg_vars, BRANCH_NAME, sanitized_task>>

ProvCreateAgentBranch ==
    /\ pc = "create_agent_branch"
    /\ \E checkout_ok \in CheckoutOutcomes(HEAD, BASE_BRANCH, worktree_dirty),
          create_ok \in BOOLEAN :
          IF ~checkout_ok
          THEN /\ Exit(3)
               /\ UNCHANGED <<HEAD, local_tips, git_ops>>
          ELSE LET ops == IF HEAD # BASE_BRANCH THEN Append(git_ops, "checkout")
                          ELSE git_ops
               IN IF ~create_ok
                  THEN /\ Exit(3)
                       /\ HEAD' = BASE_BRANCH
                       /\ git_ops' = ops
                       /\ UNCHANGED local_tips
                  ELSE /\ local_tips' = with_branch(local_tips, BRANCH_NAME,
                                                    local_tips[BASE_BRANCH])
                       /\ HEAD' = BRANCH_NAME
                       /\ git_ops' = Append(ops, "checkout -b")
                       /\ pc' = "set_upstream_tracking"
                       /\ UNCHANGED exit_code
    /\ UNCHANGED <<prov_static_vars, prov_arg_vars, BRANCH_NAME, sanitized_task,
                   worktree_dirty, stash_list, branch_description>>

\* set_upstream_tracking, set_branch_metadata, verify_push_access,
\* print_success and exit 0
ProvFinish ==
    /\ pc = "set_upstream_tracking"
    /\ branch_description' = branch_description \cup {BRANCH_NAME}
    /\ git_ops' = Append(git_ops, "config")
    /\ Exit(0)
    /\ UNCHANGED <<prov_static_vars, prov_arg_vars, BRANCH_NAME, sanitized_task,
                   HEAD, local_tips, worktree_dirty, stash_list>>

\* the same command line is run again in the repository as the first run
\* left it
ProvRerun ==
    /\ pc = "done"
    /\ prov_run = 1
    /\ first_prov_run' = [exit_code |-> exit_code, tips |-> local_tips]
    /\ prov_run' = 2
    /\ git_ops' = <<>>
    /\ TASK_DESCRIPTION' = <<>>
    /\ SESSION_ID' = <<>>
    /\ BASE_BRANCH' = n_develop
    /\ AGENT_TYPE' = s_claude
    /\ BRANCH_NAME' = <<>>
    /\ sanitized_task' = <<>>
    /\ pc' = "prov_main"
    /\ exit_code' = NoExit
    /\ UNCHANGED <<argv, repository_vars, opt_vars, cleanup_run_vars, audit_vars,
                   naming_vars, log_vars, idx, origin_tips, HEAD, local_tips,
                   worktree_dirty, stash_list, branch_description>>

NextProv ==
    \/ ProvMain
    \/ ProvValidateSessionId
    \/ ProvSanitizeTaskName
    \/ ProvValidateBaseBranch
    \/ ProvCheckBranchExists
    \/ ProvUpdateBaseBranch
    \/ ProvCreateAgentBranch
    \/ ProvFinish
    \/ ProvRerun

SpecProv == InitProv /\ [][NextProv]_vars



-----------------------------------------------------------------------------
(* Properties of a provisioning run *)

\* the command line asks for a branch: two arguments or more, the first not
\* a help flag
ProvRunArgs ==
    /\ Len(argv) >= 2
    /\ argv[1] \notin {t_help, t_h}

ProvEnded == pc = "done"

\* 24 to 32 characters, all of them letters or digits
SessionGood(sid) ==
    /\ Len(sid) >= 24
    /\ Len(sid) <= 32
    /\ \A i \in 1..Len(sid) : sid[i] \in AlnumChars

\* the commands run so far that write to the repository
writes == SelectSeq(git_ops, LAMBDA op : op \notin {"ls-remote", "ls-remote failed"})

\* the base branch named on the command line, develop when none is
ArgBase == IF Len(argv) >= 3 THEN argv[3] ELSE n_develop

ValidProvRun ==
    /\ ProvRunArgs
    /\ repo_is_git
    /\ name_of(argv) # <<>>
    /\ ArgBase \in DOMAIN LocalBranches0

\* the constructed name was there when the run started: on origin, or
\* locally at the end of the first run
ExistedBefore ==
    \/ name_of(argv) \in DOMAIN origin_tips
    \/ prov_run = 2 /\ name_of(argv) \in DOMAIN first_prov_run.tips

\* C17: when the constructed branch name already exists locally or on the
\* remote the run exits with status 2 and has run no fetch, stash, checkout,
\* pull, branch creation or config write; a second run with the same task
\* and session id leaves the branches as the first run left them
C17_ExistingNameExitsTwo ==
    (ProvEnded /\ ValidProvRun /\ ExistedBefore) =>
        /\ exit_code = 2
        /\ writes = <<>>
        /\ prov_run = 2 => local_tips = first_prov_run.tips

\* C18: a run with fewer than two arguments exits with status 1 and creates
\* no branch
C18_TooFewArgumentsExitOne ==
    (ProvEnded /\ Len(argv) < 2 /\ (Len(argv) = 0 \/ argv[1] \notin {t_help, t_h})) =>
        /\ exit_code = 1
        /\ DOMAIN local_tips = DOMAIN LocalBranches0

\* C19: every branch name a run creates is compliant for the audit's
\* classifier
C19_CreatedNamesCompliant ==
    (ProvEnded /\ exit_code = 0 /\ BRANCH_NAME # <<>>) =>
        check_naming_convention(BRANCH_NAME)

example_label == <<"f","i","x","-","a","u","t","h","-","b","u","g">>
example_branch == <<"c","l","a","u","d","e","/","f","i","x","-","a","u","t","h","-","b","u","g","-","0","1","M","9","n","P","2","Q","3","R","4","S","5","T","6","U","7","V","8","W","9","X","0","Y">>

ExampleRun ==
    /\ Len(argv) = 4
    /\ argv[1] = t_fix_auth_bug
    /\ argv[2] = sid_example
    /\ argv[3] = n_main
    /\ argv[4] = s_claude

\* C20: the run with task "Fix Auth!! Bug", session id
\* 01M9nP2Q3R4S5T6U7V8W9X0Y, base main and agent type claude ends with status
\* 0 unless the name is taken (2) or a git operation fails (3), and then it
\* has sanitized the task to fix-auth-bug and created the branch
\* claude/fix-auth-bug-01M9nP2Q3R4S5T6U7V8W9X0Y; with an agent type other than
\* claude the name is agent/<agentType>/<task>-<sessionId>
C20_ExampleRun ==
    /\ (ProvEnded /\ ExampleRun /\ repo_is_git) =>
           /\ exit_code \in {0, 2, 3}
           /\ exit_code = 0 =>
                  /\ sanitized_task = example_label
                  /\ BRANCH_NAME = example_branch
                  /\ example_branch \in DOMAIN local_tips
                  /\ HEAD = example_branch
    /\ (BRANCH_NAME # <<>> /\ AGENT_TYPE # s_claude) =>
           BRANCH_NAME = s_agent \o <<"/">> \o AGENT_TYPE \o <<"/">>
                             \o sanitized_task \o <<"-">> \o SESSION_ID

C20_Witness ==
    /\ ProvEnded
    /\ ExampleRun
    /\ prov_run = 1
    /\ exit_code = 0
    /\ example_branch \in DOMAIN local_tips


-----------------------------------------------------------------------------
(* agent-logger.js, mcp-logger.js and logAgentCommunication of
   supabase-client.js: a few calls of the logging functions, one after the
   other, each against a backend that answers, answers with an error result,
   or throws *)

MaxLogCalls == 2

\* what an awaited supabase query does: resolves with data, resolves with
\* an error result, rejects
Outcomes == {"ok", "error", "throws"}

\* what the fetch of sendToLoki does
LokiOutcomes == {"ok", "fails"}

conv_null == [tag |-> "null", n |-> 0]
conv_empty == [tag |-> "empty", n |-> 0]
conv_given == [tag |-> "conv", n |-> 12345]
id_unknown == [tag |-> "msg", n |-> 67890]

\* !conversationId
falsy(id) == id.tag \in {"null", "empty"}

ConversationArgs == {conv_null, conv_empty, conv_given}

\* `<tag>-${Date.now()}-...`
generated_id(tag, now) == [tag |-> tag, n |-> now]

returned(value) == [kind |-> "returned", value |-> value]
rejected == [kind |-> "rejected"]

\* .insert(row) on a table
insert(table, row, outcome) == IF outcome = "ok" THEN Append(table, row) ELSE table

\* .update(fields).eq(key, id) on a table
update_status(table, key, id, status, outcome) ==
    IF outcome = "ok"
    THEN [i \in 1..Len(table) |->
             IF table[i][key] = id THEN [table[i] EXCEPT !.status = status] ELSE table[i]]
    ELSE table

\* the body of logAgentMessage, called as op with these options
LogAgentMessageBody(op, options, outcome) ==
    LET now == log_clock + 1
        conversationId == IF falsy(options.conversationId)
                          THEN generated_id("conv", now)
                          ELSE options.conversationId
        messageId == generated_id("msg", now)
        row == [message_id |-> messageId, from_agent |-> options.from,
                to_agent |-> options.to, message_type |-> "request",
                conversation_id |-> conversationId, status |-> "sent"]
    IN /\ log_clock' = now
       /\ agent_communications' = insert(agent_communications, row, outcome)
       /\ warnings' = IF outcome = "ok" THEN warnings ELSE warnings + 1
       /\ last_call' = [op |-> op, options |-> options, outcome |-> outcome]
       /\ last_result' = returned([messageId |-> messageId,
                                   conversationId |-> conversationId])
       /\ UNCHANGED <<mcp_tool_calls, loki_stream>>

LogAgentMessage ==
    /\ log_clock < MaxLogCalls
    /\ \E conv \in ConversationArgs, outcome \in Outcomes :
          LogAgentMessageBody("logAgentMessage",
              [from |-> "agent-01", to |-> "agent-08", conversationId |-> conv],
              outcome)

\* logAgentMessage({...options, status: 'received'})
LogAgentReceived ==
    /\ log_clock < MaxLogCalls
    /\ \E conv \in ConversationArgs, outcome \in Outcomes :
          LogAgentMessageBody("logAgentReceived",
              [from |-> "user", to |-> "agent-01", conversationId |-> conv,
               status |-> "received"],
              outcome)

MessageIds ==
    {agent_communications[i].message_id : i \in 1..Len(agent_communications)}
        \cup {id_unknown}

UpdateMessageStatus ==
    /\ log_clock < MaxLogCalls
    /\ \E messageId \in MessageIds, outcome \in Outcomes :
          /\ log_clock' = log_clock + 1
          /\ agent_communications' =
                 update_status(agent_communications, "message_id", messageId,
                               "processed", outcome)
          /\ warnings' = IF outcome = "ok" THEN warnings ELSE warnings + 1
          /\ last_call' = [op |-> "updateMessageStatus", messageId |-> messageId,
                           outcome |-> outcome]
          /\ last_result' = returned("undefined")
          /\ UNCHANGED <<mcp_tool_calls, loki_stream>>

\* the result of the insert is not looked at: only an exception is warned about
LogAgentError ==
    /\ log_clock < MaxLogCalls
    /\ \E outcome \in Outcomes :
          LET now == log_clock + 1
              row == [message_id |-> generated_id("err", now), from_agent |-> "agent-01",
                      to_agent |-> "system", message_type |-> "error",
                      conversation_id |-> conv_null, status |-> "error"]
          IN /\ log_clock' = now
             /\ agent_communications' = insert(agent_communications, row, outcome)
             /\ warnings' = IF outcome = "throws" THEN warnings + 1 ELSE warnings
             /\ last_call' = [op |-> "logAgentError", outcome |-> outcome]
             /\ last_result' = returned("undefined")
             /\ UNCHANGED <<mcp_tool_calls, loki_stream>>

LogMCPToolCall ==
    /\ log_clock < MaxLogCalls
    /\ \E conv \in {conv_null, conv_given}, outcome \in Outcomes :
          LET now == log_clock + 1
              callId == generated_id("mcp", now)
              row == [id |-> callId, timestamp |-> now, conversation_id |-> conv,
                      status |-> "running"]
          IN /\ log_clock' = now
             /\ mcp_tool_calls' = insert(mcp_tool_calls, row, outcome)
             /\ warnings' = IF outcome = "ok" THEN warnings ELSE warnings + 1
             /\ last_call' = [op |-> "logMCPToolCall", conversationId |-> conv,
                              outcome |-> outcome]
             /\ last_result' = returned(callId)
             /\ UNCHANGED <<agent_communications, loki_stream>>

CallIds ==
    {mcp_tool_calls[i].id : i \in 1..Len(mcp_tool_calls)} \cup {id_unknown}

\* .select('timestamp').eq('id', callId).single(): an error result when no
\* row has the id
fetch_original(callId, outcome) ==
    IF outcome = "ok" /\ \A i \in 1..Len(mcp_tool_calls) : mcp_tool_calls[i].id # callId
    THEN "error"
    ELSE outcome

CompleteMCPToolCall ==
    /\ log_clock < MaxLogCalls
    /\ \E callId \in CallIds, fetch_outcome \in Outcomes, update_outcome \in Outcomes :
          LET now == log_clock + 1
              fetched == fetch_original(callId, fetch_outcome)
              original == mcp_tool_calls[CHOOSE i \in 1..Len(mcp_tool_calls) :
                                             mcp_tool_calls[i].id = callId]
          IN /\ log_clock' = now
             /\ last_call' = [op |-> "completeMCPToolCall", callId |-> callId,
                              outcome |-> fetched, update_outcome |-> update_outcome]
             /\ IF fetched # "ok"
                THEN /\ warnings' = warnings + 1
                     /\ last_result' = returned("null")
                     /\ UNCHANGED mcp_tool_calls
                ELSE /\ mcp_tool_calls' =
                            update_status(mcp_tool_calls, "id", callId, "success",
                                          update_outcome)
                     /\ warnings' = IF update_outcome = "ok" THEN warnings
                                    ELSE warnings + 1
                     /\ last_result' = IF update_outcome = "throws"
                                       THEN returned("null")
                                       ELSE returned(now - original.timestamp)
             /\ UNCHANGED <<agent_communications, loki_stream>>

LogMCPToolError ==
    /\ log_clock < MaxLogCalls
    /\ \E callId \in CallIds, outcome \in Outcomes :
          /\ log_clock' = log_clock + 1
          /\ mcp_tool_calls' = update_status(mcp_tool_calls, "id", callId, "error", outcome)
          /\ warnings' = IF outcome = "throws" THEN warnings + 1 ELSE warnings
          /\ last_call' = [op |-> "logMCPToolError", callId |-> callId,
                           outcome |-> outcome]
          /\ last_result' = returned("undefined")
          /\ UNCHANGED <<agent_communications, loki_stream>>


\* logAgentCommunication with the insert inside a try block that warns
LogAgentCommunication_catching ==
    /\ log_clock < MaxLogCalls
    /\ \E outcome \in Outcomes, loki \in LokiOutcomes :
          LET now == log_clock + 1
              row == [message_id |-> generated_id("msg", now),
                      source_agent |-> "agent-01", target_agent |-> "agent-08",
                      message_type |-> "request", conversation_id |-> conv_given,
                      status |-> "sent"]
          IN /\ log_clock' = now
             /\ agent_communications' = insert(agent_communications, row, outcome)
             /\ last_call' = [op |-> "logAgentCommunication", outcome |-> outcome,
                              loki |-> loki]
             /\ loki_stream' = IF outcome = "ok" /\ loki = "ok"
                               THEN Append(loki_stream, row) ELSE loki_stream
             /\ warnings' = IF outcome # "ok" \/ loki = "fails"
                            THEN warnings + 1 ELSE warnings
             /\ last_result' = IF outcome = "ok" THEN returned(row)
                               ELSE returned("null")
             /\ UNCHANGED mcp_tool_calls

\* the awaited insert is in no try block: its exception rejects the call;
\* the failure of sendToLoki is caught and warned about
LogAgentCommunication ==
    /\ log_clock < MaxLogCalls
    /\ \E outcome \in Outcomes, loki \in LokiOutcomes :
          LET now == log_clock + 1
              row == [message_id |-> generated_id("msg", now),
                      source_agent |-> "agent-01", target_agent |-> "agent-08",
                      message_type |-> "request", conversation_id |-> conv_given,
                      status |-> "sent"]
          IN /\ log_clock' = now
             /\ agent_communications' = insert(agent_communications, row, outcome)
             /\ last_call' = [op |-> "logAgentCommunication", outcome |-> outcome,
                              loki |-> loki]
             /\ loki_stream' = IF outcome = "ok" /\ loki = "ok"
                               THEN Append(loki_stream, row) ELSE loki_stream
             /\ warnings' = IF outcome = "error" \/ (outcome = "ok" /\ loki = "fails")
                            THEN warnings + 1 ELSE warnings
             /\ last_result' = CASE outcome = "throws" -> rejected
                                 [] outcome = "error" -> returned("null")
                                 [] OTHER -> returned(row)
             /\ UNCHANGED mcp_tool_calls

InitLog ==
    /\ LogIdle
    /\ pc = "logging"
    /\ NoRepository
    /\ CleanupIdle
    /\ AuditIdle
    /\ NamingIdle
    /\ ProvIdle

log_static_vars == <<argv, repository_vars, opt_vars, cleanup_run_vars, audit_vars,
                     naming_vars, prov_vars, idx, pc, exit_code>>

NextLog ==
    \/ LogAgentMessage /\ UNCHANGED log_static_vars
    \/ LogAgentReceived /\ UNCHANGED log_static_vars
    \/ UpdateMessageStatus /\ UNCHANGED log_static_vars
    \/ LogAgentError /\ UNCHANGED log_static_vars
    \/ LogMCPToolCall /\ UNCHANGED log_static_vars
    \/ CompleteMCPToolCall /\ UNCHANGED log_static_vars
    \/ LogMCPToolError /\ UNCHANGED log_static_vars
    \/ LogAgentCommunication /\ UNCHANGED log_static_vars

SpecLog == InitLog /\ [][NextLog]_vars

-----------------------------------------------------------------------------
(* Properties of the logging functions *)

BackendFailed ==
    /\ last_call.op # "none"
    /\ \/ last_call.outcome # "ok"
       \/ last_call.op = "completeMCPToolCall" /\ last_call.update_outcome # "ok"
       \/ last_call.op = "logAgentCommunication" /\ last_call.loki = "fails"

\* C21: a call of a log-writing function whose backend failed, by an error
\* result or by an exception, completes normally, and logAgentMessage and
\* logMCPToolCall still return their generated ids
C21_BackendFailureSwallowed ==
    BackendFailed =>
        /\ last_result.kind = "returned"
        /\ last_call.op = "logAgentMessage" =>
               last_result.value.messageId = generated_id("msg", log_clock)
        /\ last_call.op = "logMCPToolCall" =>
               last_result.value = generated_id("mcp", log_clock)

\* the row the last call inserted
LastRow == agent_communications[Len(agent_communications)]

Stored ==
    /\ last_call.op \in {"logAgentMessage", "logAgentReceived"}
    /\ last_call.outcome = "ok"

\* C30: a message logged through logAgentReceived is stored with status
\* received and one logged through logAgentMessage with status sent; a
\* conversationId the caller supplies is stored and returned unchanged, and
\* one is generated only when none is supplied
C30_ReceivedStatusAndConversationId ==
    Stored =>
        /\ LastRow.status = IF last_call.op = "logAgentReceived" THEN "received"
                            ELSE "sent"
        /\ LastRow.conversation_id = last_result.value.conversationId
        /\ last_call.options.conversationId = conv_given =>
               last_result.value.conversationId = conv_given
        /\ last_call.options.conversationId = conv_null =>
               last_result.value.conversationId = generated_id("conv", log_clock)

-----------------------------------------------------------------------------
(* Archive tags of the cleanup script *)

\* an unmerged branch of the start of the run that a run with
\* --archive-unmerged and without --dry-run has removed
ArchivedDeletion(b) ==
    /\ ARCHIVE_UNMERGED
    /\ ~DRY_RUN
    /\ ~ancestor_of_base[b]
    /\ b \notin refs_heads

C22_NoArchivedDeletion == \A b \in heads0 : ~ArchivedDeletion(b)

\* archive_branch has made a tag in a run without --dry-run
C22_TagMade ==
    /\ ~DRY_RUN
    /\ \E i \in LogIdx : logfile[i].msg = "Created archive tag"
    /\ refs_tags # tags0

-----------------------------------------------------------------------------
(* The lists of the audit *)

\* the branch names of a list of [branch, age] entries
listed(arr) == {arr.items[i].branch : i \in 1..Len(arr.items)}

\* the branch names of the naming-violation list
listed_violations == {naming_violations.items[i] : i \in 1..Len(naming_violations.items)}

\* C23: the audit never lists main, develop or master as stale-merged,
\* stale-unmerged or as a naming violation, and never lists a branch both as
\* orphaned-agent and as stale-unmerged
C23_AuditPriorityOrder ==
    /\ \A b \in ProtectedNames :
        /\ b \notin listed(stale_merged)
        /\ b \notin listed(stale_unmerged)
        /\ b \notin listed_violations
    /\ listed(orphaned_agent) \cap listed(stale_unmerged) = {}

-----------------------------------------------------------------------------
(* The remote existence check of the provisioner *)

ran(op) == \E i \in 1..Len(git_ops) : git_ops[i] = op

\* C24: a run whose query to the remote failed ends with a failure status and
\* creates no branch, and a branch is created only after a query that
\* answered and did not list the name
C24_FailedRemoteCheckStops ==
    /\ (ran("ls-remote failed") /\ pc = "done") => exit_code \notin {NoExit, 0}
    /\ ran("ls-remote failed") => ~ran("checkout -b")
    /\ ran("checkout -b") =>
        /\ ran("ls-remote")
        /\ BRANCH_NAME \notin DOMAIN origin_tips

-----------------------------------------------------------------------------
(* The branches a provisioner run leaves alone *)

\* C25: in the first run every local branch of the start other than the base
\* branch, the checked-out branch included, keeps its tip
C25_OtherBranchesKeepTips ==
    prov_run = 1 =>
        \A b \in DOMAIN LocalBranches0 :
            b # ArgBase => local_tips[b] = LocalBranches0[b]

-----------------------------------------------------------------------------
(* The sanitized task label *)

\* C28: the label of an accepted task description has TASK_MIN to TASK_MAX
\* characters out of a-z, 0-9 and the hyphen, has no hyphen at either end and
\* no two hyphens in a row, and sanitizing it again returns it unchanged
C28_SanitizedLabelWellFormed ==
    sanitized_task # <<>> =>
        /\ Len(sanitized_task) >= TASK_MIN
        /\ Len(sanitized_task) <= TASK_MAX
        /\ \A i \in 1..Len(sanitized_task) : sanitized_task[i] \in TaskChars
        /\ sanitized_task[1] # "-"
        /\ sanitized_task[Len(sanitized_task)] # "-"
        /\ \A i \in 1..(Len(sanitized_task) - 1) :
            ~(sanitized_task[i] = "-" /\ sanitized_task[i + 1] = "-")
        /\ sanitized_label(sanitized_task) = sanitized_task

-----------------------------------------------------------------------------
(* The closing line of the text report *)

\* the text report prints "No issues found" when it gets to its end and the
\* four sizes are 0
no_issues_found ==
    /\ OUTPUT_FORMAT = "text"
    /\ Len(report) = Len(summary_arrays) + 1
    /\ \A i \in 2..Len(report) : report[i] = 0

ListsEmpty == \A i \in 1..Len(summary_arrays) : summary_arrays[i].items = <<>>

\* C27: a finished text audit has exit status 0 exactly when the report says
\* that no issues were found, and it says so exactly when the naming,
\* stale-merged, stale-unmerged and orphaned-agent lists are all empty
C27_ExitZeroIffNoIssues ==
    (AuditEnded /\ OUTPUT_FORMAT = "text") =>
        /\ exit_code = 0 <=> no_issues_found
        /\ no_issues_found <=> ListsEmpty

-----------------------------------------------------------------------------
(* The exit status of a dry run that has something to delete *)

WouldDeleteReported == \E i \in LogIdx : logfile[i].msg = "[DRY-RUN] Would delete"

-----------------------------------------------------------------------------
(* What an audit of the same repository reports, next to what the cleanup
   deletes *)

\* the tests of collect_branch_data on a branch of the repository the cleanup
\* started on, with the --stale-days of the cleanup
audit_violation(b) == ~check_naming_convention(b)

audit_stale_merged(b) == commit_age[b] > STALE_DAYS /\ ancestor_of_base[b]

audit_stale_unmerged(b) == commit_age[b] > STALE_DAYS /\ ~ancestor_of_base[b]

audit_orphaned_agent(b) ==
    /\ grep_agent(b)
    /\ commit_age[b] > AUDIT_ORPHAN_DAYS
    /\ ~ancestor_of_base[b]

\* the audit gets past its summary, to the lists, only when each of the four
\* arrays received an entry
audit_prints_lists ==
    /\ \E b \in heads0 : audit_violation(b)
    /\ \E b \in heads0 : audit_stale_merged(b)
    /\ \E b \in heads0 : audit_stale_unmerged(b)
    /\ \E b \in heads0 : audit_orphaned_agent(b)

audit_lists(b) ==
    audit_stale_merged(b) \/ audit_stale_unmerged(b) \/ audit_orphaned_agent(b)

\* the cleanup ran with every option but --stale-days, --dry-run and --auto
\* at its default
CleanupDefaults ==
    /\ CleanupRan
    /\ pc # "parse_args"
    /\ KEEP_MERGED_DAYS = DEFAULT_KEEP_MERGED_DAYS
    /\ BRANCH_PATTERN = pat_default
    /\ ~ARCHIVE_UNMERGED
    /\ ~CLEANUP_REMOTE

RemovalLines ==
    {i \in LogIdx : logfile[i].msg \in {"Deleted", "[DRY-RUN] Would delete"}}

\* C26: every branch the cleanup deletes or reports as would-delete is
\* reported by the audit of the same repository with the same --stale-days as
\* stale-merged, stale-unmerged or orphaned-agent
C26_CleanupWithinAudit ==
    CleanupDefaults =>
        \A i \in RemovalLines :
            audit_prints_lists /\ audit_lists(logfile[i].branch)

\* the part of C26 that does not depend on the audit printing its lists:
\* every branch the cleanup deletes or reports as would-delete passes the
\* stale or the orphaned test of the audit
C26_CleanupWithinAuditTests ==
    CleanupDefaults =>
        \A i \in RemovalLines : audit_lists(logfile[i].branch)

=============================================================================
